---- MODULE Spec2Model ----
(***************************************************************************)
(* Structure-recovery pipeline of the spreadsheet query application:       *)
(* header detection, sheet classification, aggregate analysis and matrix   *)
(* normalization, and the loading of processed sheets into the database.   *)
(*                                                                         *)
(* Strings are sequences of one-character strings so that the regular      *)
(* expressions, trim() and the case conversions of the source are          *)
(* computed rather than assumed.  Indices are 0-based as in the source;    *)
(* At(row, i) reads a cell and yields Undef past the end of the row.       *)
(***************************************************************************)
EXTENDS Integers, Sequences, FiniteSets, TLC

\* ------------------------------------------------------------------------
\* Characters and strings
\* ------------------------------------------------------------------------

UpperSeq ==
  <<"A","B","C","D","E","F","G","H","I","J","K","L","M",
    "N","O","P","Q","R","S","T","U","V","W","X","Y","Z">>

LowerSeq ==
  <<"a","b","c","d","e","f","g","h","i","j","k","l","m",
    "n","o","p","q","r","s","t","u","v","w","x","y","z">>

UpperChars == { UpperSeq[i] : i \in 1..26 }

LowerChars == { LowerSeq[i] : i \in 1..26 }

DigitChars == {"0","1","2","3","4","5","6","7","8","9"}

SpaceChars == {" "}

LowerMap == [c \in UpperChars |-> LowerSeq[CHOOSE i \in 1..26 : UpperSeq[i] = c]]

UpperMap == [c \in LowerChars |-> UpperSeq[CHOOSE i \in 1..26 : LowerSeq[i] = c]]

ToLowerChar(c) == IF c \in UpperChars THEN LowerMap[c] ELSE c

ToLowerCase(s) == [i \in 1..Len(s) |-> ToLowerChar(s[i])]

IsLetter(c) == c \in UpperChars \cup LowerChars

IsWordChar(c) == IsLetter(c) \/ c \in DigitChars \/ c = "_"

\* String.prototype.trim
Trim(s) ==
  LET idx == { i \in 1..Len(s) : s[i] \notin SpaceChars }
  IN  IF idx = {} THEN <<>>
      ELSE LET lo == CHOOSE i \in idx : \A j \in idx : i <= j
               hi == CHOOSE i \in idx : \A j \in idx : i >= j
           IN  SubSeq(s, lo, hi)

\* s matches /^p/i for a lower-case literal p
StartsWithCI(s, p) ==
  /\ Len(s) >= Len(p)
  /\ \A j \in 1..Len(p) : ToLowerChar(s[j]) = p[j]

\* s matches /p$/i for a lower-case literal p
EndsWithCI(s, p) ==
  /\ Len(s) >= Len(p)
  /\ \A j \in 1..Len(p) : ToLowerChar(s[Len(s) - Len(p) + j]) = p[j]

\* the literal p occurs in s at (1-based) position i, ignoring case
OccursAtCI(s, p, i) ==
  /\ i >= 1
  /\ i + Len(p) - 1 <= Len(s)
  /\ \A j \in 1..Len(p) : ToLowerChar(s[i + j - 1]) = p[j]

\* s matches /p/i for a lower-case literal p
ContainsCI(s, p) == \E i \in 1..Len(s) : OccursAtCI(s, p, i)

\* \b between positions i-1 and i of s (1-based; i = Len(s)+1 is the end)
WordBoundary(s, i) ==
  LET before == i > 1 /\ i - 1 <= Len(s) /\ IsWordChar(s[i - 1])
      after  == i >= 1 /\ i <= Len(s) /\ IsWordChar(s[i])
  IN  before # after

\* s matches /\bp\b/i for a lower-case literal p
ContainsWordCI(s, p) ==
  \E i \in 1..Len(s) :
    /\ OccursAtCI(s, p, i)
    /\ WordBoundary(s, i)
    /\ WordBoundary(s, i + Len(p))

Min(a, b) == IF a < b THEN a ELSE b

Max(a, b) == IF a > b THEN a ELSE b

\* ------------------------------------------------------------------------
\* Cell values (CellValue = string | number | boolean | Date | null)
\* ------------------------------------------------------------------------

\* One record shape for every variant: k is the runtime type, s the text of a
\* string, and a number has the value n + h/2 (h = 1 makes it non-integral).
\* A boolean is n = 1 (true) or n = 0 (false).
Null == [k |-> "null", s |-> <<>>, n |-> 0, h |-> 0]

Undef == [k |-> "undef", s |-> <<>>, n |-> 0, h |-> 0]

Str(s) == [k |-> "str", s |-> s, n |-> 0, h |-> 0]

Num(n) == [k |-> "num", s |-> <<>>, n |-> n, h |-> 0]

Real(n) == [k |-> "num", s |-> <<>>, n |-> n, h |-> 1]

Bool(b) == [k |-> "bool", s |-> <<>>, n |-> IF b THEN 1 ELSE 0, h |-> 0]

NaN == [k |-> "nan", s |-> <<>>, n |-> 0, h |-> 0]

At(row, i) == IF i >= 0 /\ i < Len(row) THEN row[i + 1] ELSE Undef

IsStr(c) == c.k = "str"

IsNum(c) == c.k = "num"

\* cell === null || cell === undefined || cell === ''
IsBlank(c) == c.k = "null" \/ c.k = "undef" \/ (c.k = "str" /\ c.s = <<>>)

\* cell !== null && cell !== ''   (undefined counts as present)
NotNullNotEmpty(c) == ~(c.k = "null") /\ ~(c.k = "str" /\ c.s = <<>>)

\* ------------------------------------------------------------------------
\* String literals used by the patterns
\* ------------------------------------------------------------------------

L_budget == <<"b","u","d","g","e","t">>

L_actual == <<"a","c","t","u","a","l">>

L_forecast == <<"f","o","r","e","c","a","s","t">>

L_total == <<"t","o","t","a","l">>

L_id == <<"i","d">>

L_code == <<"c","o","d","e">>

L_number == <<"n","u","m","b","e","r">>

L_key == <<"k","e","y">>

L_fy == <<"f","y">>

S_Unknown == <<"U","n","k","n","o","w","n">>

\* ------------------------------------------------------------------------
\* Header detector (lib/excel/header-detector.ts)
\* ------------------------------------------------------------------------

MAX_SCAN_ROWS == 25

TotalWords ==
  { <<"t","o","t","a","l">>,
    <<"s","u","b","t","o","t","a","l">>,
    <<"s","u","m">>,
    <<"g","r","a","n","d">> }

TypicalHeaderWords ==
  { <<"i","d">>,
    <<"n","a","m","e">>,
    <<"d","a","t","e">>,
    <<"a","m","o","u","n","t">>,
    <<"p","r","i","c","e">>,
    <<"q","u","a","n","t","i","t","y">>,
    <<"c","a","t","e","g","o","r","y">>,
    <<"t","y","p","e">>,
    <<"s","t","a","t","u","s">>,
    <<"r","e","g","i","o","n">>,
    <<"d","e","p","a","r","t","m","e","n","t">> }

\* some cell of the row is a string containing one of the words as a whole word
RowHasWordOf(row, words) ==
  \E i \in 1..Len(row) :
    IsStr(row[i]) /\ \E w \in words : ContainsWordCI(row[i].s, w)

NonEmptyCount(row) == Cardinality({ i \in 1..Len(row) : NotNullNotEmpty(row[i]) })

scoreRow(data, rowIndex) ==
  LET row == data[rowIndex + 1]
      nonEmptyCells == NonEmptyCount(row)
      totalCells == Len(row)
      stringCells == Cardinality({ i \in 1..Len(row) : IsStr(row[i]) /\ row[i].s # <<>> })
      uniqueValues == { row[i] : i \in { j \in 1..Len(row) : NotNullNotEmpty(row[j]) } }
      hasNext == rowIndex < Len(data) - 1
      nextRow == data[rowIndex + 2]
      nextNonEmpty == NonEmptyCount(nextRow)
      hasNumericBelow == \E i \in 1..Len(nextRow) : IsNum(nextRow[i])
      r1 == IF nonEmptyCells >= 3 THEN nonEmptyCells * 2 ELSE 0
      r2 == IF nonEmptyCells = 1 /\ totalCells > 1 THEN -15 ELSE 0
      r3 == IF stringCells = nonEmptyCells /\ nonEmptyCells > 0 THEN 5 ELSE 0
      r4 == IF Cardinality(uniqueValues) = nonEmptyCells /\ nonEmptyCells > 1 THEN 3 ELSE 0
      \* nextNonEmpty >= nonEmptyCells * 0.7 && nextNonEmpty > 0
      r5a == IF hasNext /\ 10 * nextNonEmpty >= 7 * nonEmptyCells /\ nextNonEmpty > 0
             THEN 2 ELSE 0
      r5b == IF hasNext /\ hasNumericBelow /\ stringCells = nonEmptyCells THEN 3 ELSE 0
      r6 == IF RowHasWordOf(row, TotalWords) THEN -10 ELSE 0
      r7 == IF rowIndex = 0 /\ nonEmptyCells <= 2 THEN -3 ELSE 0
      r8 == IF RowHasWordOf(row, TypicalHeaderWords) THEN 4 ELSE 0
  IN  [ row |-> rowIndex, score |-> r1 + r2 + r3 + r4 + r5a + r5b + r6 + r7 + r8 ]

\* a reduce that lets a later row of equal score replace the best one
RECURSIVE BestCandidateLast(_, _, _)
BestCandidateLast(scores, i, best) ==
  IF i > Len(scores) THEN best
  ELSE BestCandidateLast(scores, i + 1,
                         IF scores[i].score >= best.score THEN scores[i] ELSE best)

\* scores.reduce((best, current) => current.score > best.score ? current : best)
RECURSIVE BestCandidate(_, _, _)
BestCandidate(scores, i, best) ==
  IF i > Len(scores) THEN best
  ELSE BestCandidate(scores, i + 1,
                     IF scores[i].score > best.score THEN scores[i] ELSE best)

DigitSeq == <<"0","1","2","3","4","5","6","7","8","9">>

DigitVal(c) == (CHOOSE i \in 1..10 : DigitSeq[i] = c) - 1

\* String(n) for an integer n
RECURSIVE NatToString(_)
NatToString(n) ==
  IF n < 10 THEN << DigitSeq[n + 1] >>
  ELSE NatToString(n \div 10) \o << DigitSeq[(n % 10) + 1] >>

L_true == <<"t","r","u","e">>

L_false == <<"f","a","l","s","e">>

L_half == <<".","5">>

\* String(value)
StringOf(c) ==
  IF c.k = "str" THEN c.s
  ELSE IF c.k = "num"
  THEN (IF c.n < 0 THEN <<"-">> \o NatToString(0 - c.n) ELSE NatToString(c.n))
         \o (IF c.h = 1 THEN L_half ELSE <<>>)
  ELSE IF c.k = "bool" THEN (IF c.n = 1 THEN L_true ELSE L_false)
  ELSE <<>>

\* .replace(/[^a-z0-9_]/g, '_')
ReplaceInvalid(s) ==
  [ i \in 1..Len(s) |->
      IF s[i] \in LowerChars \cup DigitChars \cup {"_"} THEN s[i] ELSE "_" ]

\* .replace(/^_+|_+$/g, '')
StripUnderscores(s) ==
  LET idx == { i \in 1..Len(s) : s[i] # "_" }
  IN  IF idx = {} THEN <<>>
      ELSE LET lo == CHOOSE i \in idx : \A j \in idx : i <= j
               hi == CHOOSE i \in idx : \A j \in idx : i >= j
           IN  SubSeq(s, lo, hi)

\* .replace(/_+/g, '_')
RECURSIVE CollapseUnderscores(_)
CollapseUnderscores(s) ==
  IF Len(s) <= 1 THEN s
  ELSE IF s[1] = "_" /\ s[2] = "_" THEN CollapseUnderscores(Tail(s))
  ELSE << s[1] >> \o CollapseUnderscores(Tail(s))

sanitizeColumnName(name) ==
  LET t == CollapseUnderscores(StripUnderscores(ReplaceInvalid(ToLowerCase(name))))
  IN  SubSeq(t, 1, Min(64, Len(t)))

L__id == <<"_","i","d">>

L_id_ == <<"i","d","_">>

L__code == <<"_","c","o","d","e">>

L__key == <<"_","k","e","y">>

L__ref == <<"_","r","e","f">>

L__no == <<"_","n","o">>

L__number == <<"_","n","u","m","b","e","r">>

L_sku == <<"s","k","u">>

L_upc == <<"u","p","c">>

L_isbn == <<"i","s","b","n">>

\* only the patterns built on "id"
isIdLikeColumnNameIdOnly(name) ==
  LET lower == ToLowerCase(name)
  IN  \/ EndsWithCI(lower, L__id)
      \/ lower = L_id
      \/ StartsWithCI(lower, L_id_)

isIdLikeColumnName(name) ==
  LET lower == ToLowerCase(name)
  IN  \/ EndsWithCI(lower, L__id)
      \/ lower = L_id
      \/ StartsWithCI(lower, L_id_)
      \/ EndsWithCI(lower, L__code)
      \/ EndsWithCI(lower, L__key)
      \/ EndsWithCI(lower, L__ref)
      \/ EndsWithCI(lower, L__no)
      \/ EndsWithCI(lower, L__number)
      \/ lower = L_sku
      \/ lower = L_upc
      \/ lower = L_isbn

\* s has the shape of digit groups of the given lengths joined by sep
MatchesDigitGroups(s, a, b, c, sep) ==
  /\ Len(s) = a + b + c + 2
  /\ \A i \in 1..Len(s) :
       IF i = a + 1 \/ i = a + b + 2 THEN s[i] = sep ELSE s[i] \in DigitChars

\* /^\d+$/
IsDigitText(s) == Len(s) >= 1 /\ \A i \in 1..Len(s) : s[i] \in DigitChars

isDateString(value) ==
  \/ MatchesDigitGroups(value, 4, 2, 2, "-")
  \/ MatchesDigitGroups(value, 2, 2, 4, "/")
  \/ MatchesDigitGroups(value, 2, 2, 4, "-")
  \/ MatchesDigitGroups(value, 4, 2, 2, "/")

\* the first `limit` cells of a column that satisfy keep, top to bottom
RECURSIVE TakeColumn(_, _, _, _, _)
TakeColumn(dataRows, colIndex, r, limit, keepBlankless) ==
  IF r > Len(dataRows) \/ limit = 0 THEN <<>>
  ELSE LET v == At(dataRows[r], colIndex)
           keep == IF keepBlankless THEN ~IsBlank(v)
                   ELSE v.k \notin {"null", "undef"}
       IN  IF keep
           THEN << v >> \o TakeColumn(dataRows, colIndex, r + 1, limit - 1, keepBlankless)
           ELSE TakeColumn(dataRows, colIndex, r + 1, limit, keepBlankless)

\* a majority rule in place of the 70 % threshold, integral or not
PickByMajority(boolean, date, integer, number, total) ==
  IF 2 * boolean >= total THEN "BOOLEAN"
  ELSE IF 2 * date >= total THEN "DATE"
  ELSE IF 2 * integer >= total THEN "INTEGER"
  ELSE IF 2 * number >= total THEN "DOUBLE"
  ELSE "VARCHAR"

\* threshold = 0.7: the first type, in this order, that 70 % of the sampled
\* values have
PickByRatio(boolean, date, integer, number, total) ==
  IF 10 * boolean >= 7 * total THEN "BOOLEAN"
  ELSE IF 10 * date >= 7 * total THEN "DATE"
  ELSE IF 10 * integer >= 7 * total /\ integer = number THEN "INTEGER"
  ELSE IF 10 * number >= 7 * total THEN "DOUBLE"
  ELSE "VARCHAR"

\* type inference that parses digit text as numbers
inferColumnTypeCoercing(dataRows, colIndex, columnName) ==
  LET values == TakeColumn(dataRows, colIndex, 1, 20, TRUE)
      numeric == Cardinality({ i \in 1..Len(values) : LET v == values[i] IN v.k = "num" \/ (v.k = "str" /\ IsDigitText(v.s)) })
      integer == Cardinality({ i \in 1..Len(values) : LET v == values[i] IN (v.k = "num" /\ v.h = 0) \/ (v.k = "str" /\ IsDigitText(v.s)) })
      boolean == Cardinality({ i \in 1..Len(values) : LET v == values[i] IN v.k = "bool" })
      date    == Cardinality({ i \in 1..Len(values) : LET v == values[i] IN v.k = "str" /\ isDateString(v.s) })
      total   == Len(values)
  IN  IF columnName # <<>> /\ isIdLikeColumnName(columnName) THEN "VARCHAR"
      ELSE IF total = 0 THEN "VARCHAR"
      ELSE IF boolean + date + numeric < total THEN "VARCHAR"
      ELSE PickByRatio(boolean, date, integer, numeric, total)

inferColumnType(dataRows, colIndex, columnName) ==
  LET values == TakeColumn(dataRows, colIndex, 1, 20, TRUE)
      hasAlphanumericStrings ==
        \E i \in 1..Len(values) :
          IsStr(values[i]) /\ \E j \in 1..Len(values[i].s) : IsLetter(values[i].s[j])
      boolean == Cardinality({ i \in 1..Len(values) : LET v == values[i] IN v.k = "bool" })
      number  == Cardinality({ i \in 1..Len(values) : LET v == values[i] IN v.k = "num" })
      integer == Cardinality({ i \in 1..Len(values) : LET v == values[i] IN v.k = "num" /\ v.h = 0 })
      date    == Cardinality({ i \in 1..Len(values) : LET v == values[i] IN v.k = "date" \/ (v.k = "str" /\ isDateString(v.s)) })
      string  == Cardinality({ i \in 1..Len(values) : LET v == values[i] IN v.k = "str" /\ ~isDateString(v.s) })
      total   == Len(values)
  IN  IF columnName # <<>> /\ isIdLikeColumnName(columnName) THEN "VARCHAR"
      ELSE IF total = 0 THEN "VARCHAR"
      ELSE IF hasAlphanumericStrings THEN "VARCHAR"
      ELSE IF string > 0 THEN "VARCHAR"
      ELSE PickByRatio(boolean, date, integer, number, total)

checkNullable(dataRows, colIndex) ==
  \E r \in 1..Min(50, Len(dataRows)) : IsBlank(At(dataRows[r], colIndex))

\* pos is the header position the column was read from; it is carried for
\* reference only, ColumnInfo itself has no such field.
RECURSIVE extractColumnsFrom(_, _, _)
extractColumnsFrom(headerRowData, dataRows, colIndex) ==
  IF colIndex >= Len(headerRowData) THEN <<>>
  ELSE LET headerValue == At(headerRowData, colIndex)
           originalName == StringOf(headerValue)
           sanitizedName == sanitizeColumnName(originalName)
       IN  (IF ~NotNullNotEmpty(headerValue) THEN <<>>
            ELSE << [ name |-> sanitizedName,
                      originalName |-> originalName,
                      type |-> inferColumnType(dataRows, colIndex, sanitizedName),
                      nullable |-> checkNullable(dataRows, colIndex),
                      sampleValues |-> TakeColumn(dataRows, colIndex, 1, 5, FALSE),
                      pos |-> colIndex ] >>)
             \o extractColumnsFrom(headerRowData, dataRows, colIndex + 1)

extractColumns(data, headerRow) ==
  IF headerRow >= Len(data) THEN <<>>
  ELSE extractColumnsFrom(data[headerRow + 1],
                          SubSeq(data, headerRow + 2, Min(Len(data), headerRow + 101)),
                          0)

\* a detector that reports "no header" (-1) for a sheet without rows
detectHeaderRowOrNone(data) ==
  IF Len(data) = 0 THEN [ headerRow |-> -1, confidence |-> 0, columns |-> <<>> ]
  ELSE
    LET rowsToScan == Min(Len(data), MAX_SCAN_ROWS)
        scores == [ i \in 1..rowsToScan |-> scoreRow(data, i - 1) ]
        bestCandidate == BestCandidate(scores, 2, scores[1])
    IN  [ headerRow |-> bestCandidate.row,
          confidence |-> Min(100, 4 * bestCandidate.score),
          columns |-> extractColumns(data, bestCandidate.row) ]

detectHeaderRow(data) ==
  IF Len(data) = 0 THEN [ headerRow |-> 0, confidence |-> 0, columns |-> <<>> ]
  ELSE
    LET rowsToScan == Min(Len(data), MAX_SCAN_ROWS)
        scores == [ i \in 1..rowsToScan |-> scoreRow(data, i - 1) ]
        bestCandidate == BestCandidate(scores, 2, scores[1])
    IN  [ headerRow |-> bestCandidate.row,
          \* Math.round((score / 25) * 100)
          confidence |-> Min(100, 4 * bestCandidate.score),
          columns |-> extractColumns(data, bestCandidate.row) ]

\* ------------------------------------------------------------------------
\* Sheet classifier (lib/excel/sheet-classifier.ts)
\* ------------------------------------------------------------------------

MonthAbbreviations ==
  { <<"j","a","n">>,
    <<"f","e","b">>,
    <<"m","a","r">>,
    <<"a","p","r">>,
    <<"m","a","y">>,
    <<"j","u","n">>,
    <<"j","u","l">>,
    <<"a","u","g">>,
    <<"s","e","p">>,
    <<"o","c","t">>,
    <<"n","o","v">>,
    <<"d","e","c">> }

MonthNames ==
  { <<"j","a","n","u","a","r","y">>,
    <<"f","e","b","r","u","a","r","y">>,
    <<"m","a","r","c","h">>,
    <<"a","p","r","i","l">>,
    <<"m","a","y">>,
    <<"j","u","n","e">>,
    <<"j","u","l","y">>,
    <<"a","u","g","u","s","t">>,
    <<"s","e","p","t","e","m","b","e","r">>,
    <<"o","c","t","o","b","e","r">>,
    <<"n","o","v","e","m","b","e","r">>,
    <<"d","e","c","e","m","b","e","r">> }

\* /^X[digits]\s/i
MatchesLetterDigitSpace(s, letter, digits) ==
  Len(s) >= 3 /\ ToLowerChar(s[1]) = letter /\ s[2] \in digits /\ s[3] \in SpaceChars

\* /^X[digits]$/i
MatchesLetterDigitOnly(s, letter, digits) ==
  Len(s) = 2 /\ ToLowerChar(s[1]) = letter /\ s[2] \in digits

\* /\bX[digits]\b/i
ContainsLetterDigitWord(s, letter, digits) ==
  \E i \in 1..Len(s) :
    /\ i + 1 <= Len(s)
    /\ ToLowerChar(s[i]) = letter
    /\ s[i + 1] \in digits
    /\ WordBoundary(s, i)
    /\ WordBoundary(s, i + 2)

\* /^(w1|w2|...)\b/i
StartsWithWordOf(s, words) ==
  \E w \in words : StartsWithCI(s, w) /\ WordBoundary(s, Len(w) + 1)

\* /^\d{4}$/
IsFourDigits(s) == Len(s) = 4 /\ \A i \in 1..4 : s[i] \in DigitChars

\* /^FY\d{2,4}/i
MatchesFiscalYear(s) ==
  StartsWithCI(s, L_fy) /\ Len(s) >= 4 /\ s[3] \in DigitChars /\ s[4] \in DigitChars

PERIOD_PATTERNS(s) ==
  \/ MatchesLetterDigitSpace(s, "q", {"1","2","3","4"})
  \/ MatchesLetterDigitOnly(s, "q", {"1","2","3","4"})
  \/ MatchesLetterDigitSpace(s, "h", {"1","2"})
  \/ MatchesLetterDigitOnly(s, "h", {"1","2"})
  \/ ContainsLetterDigitWord(s, "q", {"1","2","3","4"})
  \/ ContainsLetterDigitWord(s, "h", {"1","2"})
  \/ StartsWithWordOf(s, MonthAbbreviations)
  \/ StartsWithWordOf(s, MonthNames)
  \/ IsFourDigits(s)
  \/ MatchesFiscalYear(s)
  \/ ContainsCI(s, L_budget)
  \/ ContainsCI(s, L_actual)
  \/ ContainsCI(s, L_forecast)

isPeriodHeader(header) == PERIOD_PATTERNS(Trim(header))

\* /^[A-Z]{2,}$/
AllCapsWord(s) == Len(s) >= 2 /\ \A i \in 1..Len(s) : s[i] \in UpperChars

\* /^[A-Z][a-z]+\s+Total$/i
MatchesNameTotal(s) ==
  /\ EndsWithCI(s, L_total)
  /\ LET pre == SubSeq(s, 1, Len(s) - Len(L_total))
     IN  \E k \in 2..(Len(pre) - 1) :
           /\ \A i \in 1..k : IsLetter(pre[i])
           /\ \A i \in (k + 1)..Len(pre) : pre[i] \in SpaceChars

SECTION_MARKER_PATTERNS(s) == AllCapsWord(s) \/ MatchesNameTotal(s)

\* the cells of one row that are period headers, in order (untrimmed)
PeriodCellsOf(row) ==
  LET hits == SelectSeq(row, LAMBDA cell :
                 IsStr(cell) /\ Trim(cell.s) # <<>> /\ isPeriodHeader(cell.s))
  IN  [i \in 1..Len(hits) |-> hits[i].s]

\* Math.max(...data.map(r => r.length))
MaxRowLength(data) ==
  IF Len(data) = 0 THEN 0
  ELSE CHOOSE m \in { Len(data[i]) : i \in 1..Len(data) } :
         \A i \in 1..Len(data) : Len(data[i]) <= m

countNumericColumnsInData(data, headerRow, skipColumns) ==
  LET dataRows == SubSeq(data, headerRow + 2, Min(Len(data), headerRow + 11))
      colCount == MaxRowLength(data)
      values(col) == { r \in 1..Len(dataRows) :
                         At(dataRows[r], col).k \notin {"null", "undef"} }
      numeric(col) == { r \in values(col) : IsNum(At(dataRows[r], col)) }
  IN  IF Len(dataRows) = 0 THEN 0
      ELSE Cardinality({ col \in skipColumns..(colCount - 1) :
             /\ Cardinality(values(col)) > 0
             /\ 2 * Cardinality(numeric(col)) > Cardinality(values(col)) })

PeriodScore == 40

SectionScore == 30

NumericScore == 20

\* the first of the first ten rows with two or more period headers, or -1
FirstPeriodRow(data) ==
  LET scanRows == Min(10, Len(data))
      hitRows == { r \in 0..(scanRows - 1) : Len(PeriodCellsOf(data[r + 1])) >= 2 }
  IN  IF hitRows = {} THEN -1
      ELSE CHOOSE r \in hitRows : \A q \in hitRows : r <= q

\* the section-marker evidence in the rows from dataStartRow on
SectionBonus(data, dataStartRow) ==
  LET checked == dataStartRow..(Min(dataStartRow + 20, Len(data)) - 1)
      emptyFirstColumnCount ==
        Cardinality({ r \in checked : IsBlank(At(data[r + 1], 0)) })
      sectionMarkerCount ==
        Cardinality({ r \in checked :
           /\ ~IsBlank(At(data[r + 1], 0))
           /\ IsStr(At(data[r + 1], 0))
           /\ SECTION_MARKER_PATTERNS(At(data[r + 1], 0).s) })
      rowsChecked == Min(20, Len(data) - dataStartRow)
  IN  IF /\ rowsChecked > 0
         /\ 2 * emptyFirstColumnCount > rowsChecked
         /\ sectionMarkerCount >= 1
      THEN SectionScore ELSE 0

NumericBonus(data, headerRow) ==
  IF countNumericColumnsInData(data, headerRow, 2) >= 2 THEN NumericScore ELSE 0

MatrixScanResult(data, headerRow, confidence) ==
  [ isMatrix |-> confidence >= 50,
    confidence |-> confidence,
    headerRow |-> headerRow,
    periodHeaders |-> PeriodCellsOf(data[headerRow + 1]),
    labelColumnCount |-> 2 ]

ScanFrom(data, headerRow) ==
  IF headerRow < 0
  THEN [ isMatrix |-> FALSE, confidence |-> 0, headerRow |-> 0,
         periodHeaders |-> <<>>, labelColumnCount |-> 2 ]
  ELSE MatrixScanResult(data, headerRow,
         PeriodScore + SectionBonus(data, headerRow + 1) + NumericBonus(data, headerRow))

scanForMatrixPattern(data) == ScanFrom(data, FirstPeriodRow(data))

RECURSIVE SumSeq(_)
SumSeq(q) == IF Len(q) = 0 THEN 0 ELSE Head(q) + SumSeq(Tail(q))

\* dominant type of each of the first columnCount columns
analyzeColumnTypes(dataRows, columnCount) ==
  [ c \in 1..columnCount |->
      LET values == { r \in 1..Len(dataRows) : At(dataRows[r], c - 1).k # "null" }
          numericCount == Cardinality({ r \in values : IsNum(At(dataRows[r], c - 1)) })
          stringCount == Cardinality({ r \in values : IsStr(At(dataRows[r], c - 1)) })
      IN  IF values = {} THEN "empty"
          ELSE IF numericCount > stringCount THEN "number" ELSE "string" ]

scoreAsTable(headers, dataRows) ==
  LET nonEmptyIdx == { i \in 1..Len(headers) : NotNullNotEmpty(headers[i]) }
      nonEmptyCount == Cardinality(nonEmptyIdx)
      uniqueHeaders == { headers[i] : i \in nonEmptyIdx }
      s1 == IF Cardinality(uniqueHeaders) = nonEmptyCount /\ nonEmptyCount >= 3
            THEN 10 ELSE 0
      rowNonEmpty == [ r \in 1..Len(dataRows) |->
                         Cardinality({ i \in 1..Len(dataRows[r]) :
                                         NotNullNotEmpty(dataRows[r][i]) }) ]
      \* avgNonEmpty >= nonEmptyHeaders.length * 0.7
      s2 == IF Len(dataRows) > 0
               /\ 10 * SumSeq(rowNonEmpty) >= 7 * nonEmptyCount * Len(dataRows)
            THEN 10 ELSE 0
      hasIdColumn ==
        \E i \in 1..Len(headers) :
          /\ IsStr(headers[i])
          /\ \/ ContainsWordCI(headers[i].s, L_id)
             \/ ContainsWordCI(headers[i].s, L_code)
             \/ ContainsWordCI(headers[i].s, L_number)
             \/ ContainsWordCI(headers[i].s, L_key)
      s3 == IF hasIdColumn THEN 5 ELSE 0
      firstColumnFilled ==
        Cardinality({ r \in 1..Len(dataRows) : NotNullNotEmpty(At(dataRows[r], 0)) })
      \* firstColumnFilled > dataRows.length * 0.8
      s4 == IF Len(dataRows) > 0 /\ 10 * firstColumnFilled > 8 * Len(dataRows)
            THEN 5 ELSE 0
      columnTypes == analyzeColumnTypes(dataRows, Len(headers))
      uniqueTypes == { columnTypes[c] : c \in 1..Len(headers) }
      s5 == IF Cardinality(uniqueTypes) >= 2 THEN 5 ELSE 0
  IN  [ score |-> s1 + s2 + s3 + s4 + s5 ]

\* matrixScan.isMatrix && matrixScan.confidence > 60
AcceptsMatrix(matrixScan) == matrixScan.isMatrix /\ matrixScan.confidence > 60

\* the decision of classifySheet once both rubrics are available
ClassifyBy(matrixScan, tableScore) ==
  IF AcceptsMatrix(matrixScan)
  THEN [ sheetType |-> "matrix",
         confidence |-> matrixScan.confidence,
         periodHeaders |-> matrixScan.periodHeaders,
         labelColumnCount |-> matrixScan.labelColumnCount,
         periodHeaderRow |-> matrixScan.headerRow ]
  ELSE IF tableScore.score > 10
  THEN [ sheetType |-> "table",
         confidence |-> Min(100, tableScore.score * 3),
         periodHeaders |-> <<>>, labelColumnCount |-> 0,
         periodHeaderRow |-> -1 ]
  ELSE [ sheetType |-> "unknown", confidence |-> 0,
         periodHeaders |-> <<>>, labelColumnCount |-> 0,
         periodHeaderRow |-> -1 ]

classifySheet(data, suggestedHeaderRow) ==
  IF Len(data) = 0
  THEN [ sheetType |-> "unknown", confidence |-> 0, periodHeaders |-> <<>>,
         labelColumnCount |-> 0, periodHeaderRow |-> -1 ]
  ELSE ClassifyBy(scanForMatrixPattern(data),
                  scoreAsTable(IF suggestedHeaderRow < Len(data)
                               THEN data[suggestedHeaderRow + 1] ELSE <<>>,
                               SubSeq(data, suggestedHeaderRow + 2, Len(data))))

\* ------------------------------------------------------------------------
\* Matrix normalizer (lib/excel/matrix-normalizer.ts)
\* ------------------------------------------------------------------------

C_department == <<"d","e","p","a","r","t","m","e","n","t">>

C_category == <<"c","a","t","e","g","o","r","y">>

C_period == <<"p","e","r","i","o","d">>

C_amount == <<"a","m","o","u","n","t">>

C_is_aggregate == <<"i","s","_","a","g","g","r","e","g","a","t","e">>

FixedColumn(name, type, i) ==
  [ name |-> name, originalName |-> name, type |-> type, nullable |-> FALSE,
    sampleValues |-> <<>>, pos |-> i ]

\* the column definitions normalizeMatrix returns
MatrixColumns ==
  << FixedColumn(C_department, "VARCHAR", 0),
     FixedColumn(C_category, "VARCHAR", 1),
     FixedColumn(C_period, "VARCHAR", 2),
     FixedColumn(C_amount, "DOUBLE", 3),
     FixedColumn(C_is_aggregate, "BOOLEAN", 4) >>

\* /^Q[1-4]/i
MatchesQPrefix(s) ==
  Len(s) >= 2 /\ ToLowerChar(s[1]) = "q" /\ s[2] \in {"1","2","3","4"}

\* /^H[1-2]/i
MatchesHPrefix(s) ==
  Len(s) >= 2 /\ ToLowerChar(s[1]) = "h" /\ s[2] \in {"1","2"}

isPeriodLikeHeader(header) ==
  \/ MatchesQPrefix(header)
  \/ MatchesHPrefix(header)
  \/ ContainsCI(header, L_budget)
  \/ ContainsCI(header, L_actual)
  \/ ContainsCI(header, L_forecast)
  \/ ContainsCI(header, L_total)

\* periodHeaders.includes(cell)
Includes(seq, x) == \E j \in 1..Len(seq) : seq[j] = x

RECURSIVE findPeriodColumnsFrom(_, _, _)
findPeriodColumnsFrom(headerRow, periodHeaders, i) ==
  IF i >= Len(headerRow) THEN <<>>
  ELSE LET cell == At(headerRow, i)
           hit  == /\ IsStr(cell)
                   /\ Trim(cell.s) # <<>>
                   /\ (Includes(periodHeaders, cell.s) \/ isPeriodLikeHeader(cell.s))
       IN  (IF hit THEN << [index |-> i, header |-> Trim(cell.s)] >> ELSE <<>>)
             \o findPeriodColumnsFrom(headerRow, periodHeaders, i + 1)

findPeriodColumns(headerRow, periodHeaders) ==
  findPeriodColumnsFrom(headerRow, periodHeaders, 0)

isEmptyRow(row) == \A i \in 1..Len(row) : IsBlank(row[i])

\* /^[A-Z\s]{2,}$/
AllCapsOrSpace2(s) ==
  Len(s) >= 2 /\ \A i \in 1..Len(s) : s[i] \in UpperChars \cup SpaceChars

\* /^[A-Z\s]+$/
AllCapsOrSpace1(s) ==
  Len(s) >= 1 /\ \A i \in 1..Len(s) : s[i] \in UpperChars \cup SpaceChars

NoMarker == [found |-> FALSE, name |-> <<>>]

detectSectionMarker(row) ==
  LET firstCell == At(row, 0)
  IN  IF ~IsStr(firstCell) \/ Trim(firstCell.s) = <<>> THEN NoMarker
      ELSE LET trimmed == Trim(firstCell.s)
               nonEmptyCount ==
                 Cardinality({ i \in 2..Len(row) : ~IsBlank(row[i]) })
           IN  IF AllCapsOrSpace2(trimmed) /\ nonEmptyCount <= 1
               THEN [found |-> TRUE, name |-> trimmed]
               ELSE NoMarker

NoCategory == [found |-> FALSE, name |-> <<>>]

findCategory(row) ==
  LET b == At(row, 1)
      limit == IF Len(row) < 3 THEN Len(row) ELSE 3
      cand == { i \in 0..(limit - 1) :
                  IsStr(At(row, i)) /\ Trim(At(row, i).s) # <<>> }
  IN  IF IsStr(b) /\ b.s # <<>> /\ Trim(b.s) # <<>>
      THEN [found |-> TRUE, name |-> Trim(b.s)]
      ELSE IF cand # {}
      THEN LET i == CHOOSE x \in cand : \A y \in cand : x <= y
           IN  [found |-> TRUE, name |-> Trim(At(row, i).s)]
      ELSE NoCategory

\* SALES -> Sales
formatDepartmentName(name) ==
  IF AllCapsOrSpace1(name)
  THEN <<name[1]>> \o ToLowerCase(SubSeq(name, 2, Len(name)))
  ELSE name

\* periodColumns.map((col, idx) => set.has(col.index) || set.has(idx))
periodColumnAggregateStatus(periodColumns, aggregateColumns) ==
  [ i \in 1..Len(periodColumns) |->
      periodColumns[i].index \in aggregateColumns \/ (i - 1) \in aggregateColumns ]

\* aggregateRowIndicesFromLLM.has(dataRowIndex) ||
\* aggregateRowIndicesFromLLM.has(rowIdx - periodHeaderRow - 1)
isAggregateRowAt(aggregateRows, dataRowIndex, rowIdx, periodHeaderRow) ==
  dataRowIndex \in aggregateRows \/ (rowIdx - periodHeaderRow - 1) \in aggregateRows

\* blank and section-marker rows that leave dataRowIndex alone
AdvanceOnlyOnDataRow(dataRowIndex) == dataRowIndex

\* dataRowIndex++ on the blank-row and section-marker branches
AdvanceOnSkippedRow(dataRowIndex) == dataRowIndex + 1

\* a period cell that is not a number emitted as zero instead of skipped
PeriodCellAmountsZeroFill(value) ==
  IF IsBlank(value) THEN <<>>
  ELSE IF ~IsNum(value) THEN << Num(0) >>
  ELSE << value >>

\* What one period cell contributes: nothing when it is empty or not a
\* number, else the value itself.
PeriodCellAmounts(value) ==
  IF IsBlank(value) THEN <<>>
  ELSE IF ~IsNum(value) THEN <<>>
  ELSE << value >>

\* The inner loop over the period columns of one data row.  srcRow, srcCol
\* and rowPos record where the emitted row came from; the program's row is
\* the five fields department .. is_aggregate.
RECURSIVE EmitRowFrom(_, _, _, _, _, _, _, _, _)
EmitRowFrom(row, rowIdx, dataRowIndex, department, category, periodColumns, status, isAggregateRow, i) ==
  IF i > Len(periodColumns) THEN <<>>
  ELSE LET amounts == PeriodCellAmounts(At(row, periodColumns[i].index))
       IN  [ j \in 1..Len(amounts) |->
               [ department   |-> department,
                 category     |-> category,
                 period       |-> periodColumns[i].header,
                 amount       |-> amounts[j],
                 is_aggregate |-> isAggregateRow \/ status[i],
                 srcRow       |-> rowIdx,
                 srcCol       |-> periodColumns[i].index,
                 rowPos       |-> dataRowIndex ] ]
             \o EmitRowFrom(row, rowIdx, dataRowIndex, department, category,
                            periodColumns, status, isAggregateRow, i + 1)

EmitRow(row, rowIdx, dataRowIndex, department, category, periodColumns, status, isAggregateRow) ==
  EmitRowFrom(row, rowIdx, dataRowIndex, department, category, periodColumns,
              status, isAggregateRow, 1)

RECURSIVE NormalizeRows(_, _, _, _, _, _, _, _)
NormalizeRows(data, periodHeaderRow, periodColumns, status, aggregateRows, rowIdx, currentDepartment, dataRowIndex) ==
  IF rowIdx >= Len(data) THEN <<>>
  ELSE
    LET row == data[rowIdx + 1]
        sectionMarker == detectSectionMarker(row)
        category == findCategory(row)
        isAggregateRow ==
          isAggregateRowAt(aggregateRows, dataRowIndex, rowIdx, periodHeaderRow)
    IN  IF isEmptyRow(row)
        THEN NormalizeRows(data, periodHeaderRow, periodColumns, status,
                           aggregateRows, rowIdx + 1, currentDepartment,
                           AdvanceOnSkippedRow(dataRowIndex))
        ELSE IF sectionMarker.found
        THEN NormalizeRows(data, periodHeaderRow, periodColumns, status,
                           aggregateRows, rowIdx + 1,
                           formatDepartmentName(sectionMarker.name),
                           AdvanceOnSkippedRow(dataRowIndex))
        ELSE IF ~category.found
        THEN NormalizeRows(data, periodHeaderRow, periodColumns, status,
                           aggregateRows, rowIdx + 1, currentDepartment,
                           dataRowIndex + 1)
        ELSE EmitRow(row, rowIdx, dataRowIndex,
                     IF currentDepartment = <<>> THEN S_Unknown ELSE currentDepartment,
                     category.name, periodColumns, status, isAggregateRow)
               \o NormalizeRows(data, periodHeaderRow, periodColumns, status,
                                aggregateRows, rowIdx + 1, currentDepartment,
                                dataRowIndex + 1)

\* Fallback when no period column is found: rows are passed through as-is.
createBasicNormalization(data, headerRow) ==
  [ basic |-> TRUE,
    columns |-> LET headers == IF headerRow < Len(data) THEN data[headerRow + 1] ELSE <<>>
                    kept == SelectSeq(headers, LAMBDA h : NotNullNotEmpty(h))
                IN  [ i \in 1..Len(kept) |->
                        [ name |-> sanitizeColumnName(StringOf(kept[i])),
                          originalName |-> StringOf(kept[i]),
                          type |-> "VARCHAR", nullable |-> TRUE,
                          sampleValues |-> <<>>, pos |-> i - 1 ] ],
    rows |-> <<>>,
    rawRows |-> SubSeq(data, headerRow + 2, Len(data)),
    originalHeaders |-> <<>>,
    hasAggregateColumn |-> FALSE,
    aggregatePeriods |-> <<>>,
    aggregateColumnIndices |-> <<>>,
    aggregateRowIndices |-> {} ]

\* config = [periodHeaderRow, periodHeaders, labelColumnCount];
\* analysis = [aggregateColumns, aggregateRows, confidence]
NormalizeWith(data, config, analysis, periodColumns) ==
  LET status == periodColumnAggregateStatus(periodColumns, analysis.aggregateColumns)
      flagged == SelectSeq([i \in 1..Len(periodColumns) |->
                              [col |-> periodColumns[i], agg |-> status[i]]],
                           LAMBDA x : x.agg)
  IN  IF Len(periodColumns) = 0
      THEN createBasicNormalization(data, config.periodHeaderRow)
      ELSE [ basic |-> FALSE,
             columns |-> MatrixColumns,
             rows |-> NormalizeRows(data, config.periodHeaderRow, periodColumns,
                                    status, analysis.aggregateRows,
                                    config.periodHeaderRow + 1, <<>>, 0),
             rawRows |-> <<>>,
             originalHeaders |-> [i \in 1..Len(periodColumns) |-> periodColumns[i].header],
             hasAggregateColumn |->
               (analysis.aggregateColumns # {} \/ analysis.aggregateRows # {}),
             aggregatePeriods |-> [i \in 1..Len(flagged) |-> flagged[i].col.header],
             aggregateColumnIndices |-> [i \in 1..Len(flagged) |-> flagged[i].col.index],
             aggregateRowIndices |-> analysis.aggregateRows ]

normalizeMatrix(data, config, analysis) ==
  NormalizeWith(data, config, analysis,
                findPeriodColumns(IF config.periodHeaderRow < Len(data)
                                  THEN data[config.periodHeaderRow + 1] ELSE <<>>,
                                  config.periodHeaders))

\* ------------------------------------------------------------------------
\* Aggregate analyzer (lib/llm/matrix-analyzer.ts)
\* ------------------------------------------------------------------------

defaultResult == [ aggregateColumns |-> {}, aggregateRows |-> {}, confidence |-> 0 ]

\* A completion text is modelled by what parseAnalysisResponse can tell apart:
\*   "empty"   the empty or all-blank string
\*   "nojson"  text without a {...} block
\*   "badjson" a {...} block that JSON.parse rejects
\*   "json"    a JSON object; cols/rows are its aggregateColumns/aggregateRows
\*             arrays after the typeof === 'number' filter, conf its
\*             confidence in percent
parseAnalysisResponse(response) ==
  IF response.kind \in {"empty", "nojson", "badjson"} THEN defaultResult
  ELSE [ aggregateColumns |-> response.cols,
         aggregateRows |-> response.rows,
         \* Math.min(1, Math.max(0, parsed.confidence)), in percent
         confidence |-> Min(100, Max(0, response.conf)) ]

\* analyzeMatrixStructure without its try/catch: a rejected call is raised
AnalyzerSettlesUncaught(outcome) ==
  IF outcome.kind = "throw"
  THEN [ raised |-> TRUE, analysis |-> defaultResult ]
  ELSE [ raised |-> FALSE, analysis |-> parseAnalysisResponse(outcome) ]

\* The try/catch around the completion call: outcome.kind = "throw" is a
\* rejected call (network error, API error, client-side timeout).
AnalyzerSettles(outcome) ==
  IF outcome.kind = "throw"
  THEN [ raised |-> FALSE, analysis |-> defaultResult ]
  ELSE [ raised |-> FALSE, analysis |-> parseAnalysisResponse(outcome) ]

\* ------------------------------------------------------------------------
\* Processor (lib/excel/processor.ts)
\* ------------------------------------------------------------------------

MAX_PREVIEW_ROWS == 100

\* normalizedRow = [department, category, period, value, isAggregate]
NormalizedRow(r) ==
  << Str(r.department), Str(r.category), Str(r.period), r.amount, Bool(r.is_aggregate) >>

NoNormalization ==
  [ basic |-> TRUE, columns |-> <<>>, rows |-> <<>>, rawRows |-> <<>>, originalHeaders |-> <<>>,
    hasAggregateColumn |-> FALSE, aggregatePeriods |-> <<>>,
    aggregateColumnIndices |-> <<>>, aggregateRowIndices |-> {} ]

\* no header detection has run yet
NoDetection == [ headerRow |-> -1, confidence |-> -1, columns |-> <<>> ]

NoClassification ==
  [ sheetType |-> "unknown", confidence |-> 0, periodHeaders |-> <<>>,
    labelColumnCount |-> 0, periodHeaderRow |-> -1 ]

createEmptySheet ==
  [ sheetType |-> "unknown", headerRow |-> 0, columns |-> <<>>, data |-> <<>>,
    rowCount |-> 0, previewData |-> <<>>, norm |-> NoNormalization ]

processTableSheet(data, headerDetection) ==
  LET dataRows == SubSeq(data, headerDetection.headerRow + 2, Len(data))
  IN  [ sheetType |-> "table",
        headerRow |-> headerDetection.headerRow,
        columns |-> headerDetection.columns,
        data |-> dataRows,
        rowCount |-> Len(dataRows),
        previewData |-> << data[headerDetection.headerRow + 1] >>
                          \o SubSeq(dataRows, 1, Min(Len(dataRows), MAX_PREVIEW_ROWS - 1)),
        norm |-> NoNormalization ]

\* classification.labelColumnCount || 2
LabelColumnCountOf(classification) ==
  IF classification.labelColumnCount = 0 THEN 2 ELSE classification.labelColumnCount

MatrixConfigOf(classification) ==
  [ periodHeaderRow |-> classification.periodHeaderRow,
    labelColumnCount |-> LabelColumnCountOf(classification),
    periodHeaders |-> classification.periodHeaders ]

\* the ProcessedSheet of a normalized matrix
MatrixSheetOf(normalized) ==
  LET rows == IF normalized.basic THEN normalized.rawRows
              ELSE [ i \in 1..Len(normalized.rows) |-> NormalizedRow(normalized.rows[i]) ]
      columns == normalized.columns
  IN  [ sheetType |-> "matrix",
        headerRow |-> 0,
        columns |-> columns,
        data |-> rows,
        rowCount |-> Len(rows),
        previewData |-> << [ i \in 1..Len(columns) |-> Str(columns[i].originalName) ] >>
                          \o SubSeq(rows, 1, Min(Len(rows), MAX_PREVIEW_ROWS - 1)),
        norm |-> normalized ]

\* the part of processMatrixSheet that runs once the analysis is available
FinishMatrixSheet(data, classification, analysis) ==
  MatrixSheetOf(normalizeMatrix(data, MatrixConfigOf(classification), analysis))

\* ------------------------------------------------------------------------
\* Database loading (lib/db/duckdb.ts, lib/db/loader.ts)
\* ------------------------------------------------------------------------

IsDigitString(s) == Len(s) >= 1 /\ \A i \in 1..Len(s) : s[i] \in DigitChars

RECURSIVE ParseDigits(_)
ParseDigits(s) ==
  IF Len(s) = 0 THEN 0
  ELSE 10 * ParseDigits(SubSeq(s, 1, Len(s) - 1)) + DigitVal(s[Len(s)])

\* Number(value); the strings of the model are digit strings or not numeric
NumberOf(value) ==
  IF value.k = "num" THEN value
  ELSE IF value.k = "bool" THEN Num(value.n)
  ELSE IF value.k = "str"
  THEN LET t == Trim(value.s)
       IN  IF t = <<>> THEN Num(0)
           ELSE IF IsDigitString(t) THEN Num(ParseDigits(t))
           ELSE NaN
  ELSE NaN

\* Boolean(value)
Truthy(value) ==
  \/ value.k = "num" /\ (value.n # 0 \/ value.h # 0)
  \/ value.k = "str" /\ value.s # <<>>
  \/ value.k = "bool" /\ value.n = 1
  \/ value.k = "date"

\* the value bound to one statement parameter
bindValue(value, colType) ==
  IF IsBlank(value) THEN Null
  ELSE IF colType = "INTEGER"
  THEN LET x == NumberOf(value)
       IN  IF x.k = "nan" THEN NaN ELSE Num(x.n + x.h)   \* Math.round
  ELSE IF colType = "DOUBLE" THEN NumberOf(value)
  ELSE IF colType = "BOOLEAN" THEN Bool(Truthy(value))
  ELSE Str(StringOf(value))

\* the cell insertData reads for the i-th column (0-based) of a row
BoundCell(row, columns, i) == IF i < Len(row) THEN row[i + 1] ELSE Null

\* the rows a table holds after insertData, one bound value per column
insertData(columns, data) ==
  [ r \in 1..Len(data) |->
      [ i \in 1..Len(columns) |->
          bindValue(BoundCell(data[r], columns, i - 1), columns[i].type) ] ]

\* ------------------------------------------------------------------------
\* Sheets the model processes
\* ------------------------------------------------------------------------

S_Q1Budget == <<"Q","1"," ","B","u","d","g","e","t">>

S_Q2Budget == <<"Q","2"," ","B","u","d","g","e","t">>

S_H1Total == <<"H","1"," ","T","o","t","a","l">>

S_Notes == <<"N","o","t","e","s">>

S_SALES == <<"S","A","L","E","S">>

S_Sales == <<"S","a","l","e","s">>

S_Salaries == <<"S","a","l","a","r","i","e","s">>

S_Travel == <<"T","r","a","v","e","l">>

S_SalesTotal == <<"S","a","l","e","s"," ","T","o","t","a","l">>

S_na == <<"n","/","a">>

S_ID == <<"I","D">>

S_Name == <<"N","a","m","e">>

S_Amount == <<"A","m","o","u","n","t">>

S_TitleRow == <<"T","i","t","l","e"," ","R","o","w">>

S_Widget == <<"W","i","d","g","e","t">>

S_Gadget == <<"G","a","d","g","e","t">>

S_1 == <<"1">>

S_2 == <<"2">>

\* The number of rows beneath the header row of a modelled sheet.
MaxDataRows == 3

\* Positions an analysis may name: 0 .. MaxAggPos.
MaxAggPos == 4

\* | | | Q1 Budget | Q2 Budget | H1 Total |
HdrStandard == << Null, Null, Str(S_Q1Budget), Str(S_Q2Budget), Str(S_H1Total) >>

\* the same with a non-period column inside the data region
HdrNotes == << Null, Null, Str(S_Q1Budget), Str(S_Notes), Str(S_H1Total) >>

MatrixHeaders == { HdrStandard, HdrNotes }

RowSection == << Str(S_SALES), Null, Null, Null, Null >>

RowSalaries == << Null, Str(S_Salaries), Num(3), Num(4), Num(7) >>

RowTravel == << Null, Str(S_Travel), Num(1), Num(2), Num(3) >>

RowBlank == << Null, Null, Null, Null, Null >>

RowNoLabel == << Null, Null, Num(1), Num(2), Num(3) >>

RowSubtotal == << Str(S_SalesTotal), Null, Num(4), Num(6), Num(10) >>

RowPartial == << Null, Str(S_Travel), Num(5), Str(S_na), Null >>

MatrixRowKinds ==
  { RowSection, RowSalaries, RowTravel, RowBlank, RowNoLabel, RowSubtotal, RowPartial }

HdrTable == << Str(S_ID), Str(S_Name), Str(S_Amount) >>

\* a header with an empty cell between two named columns
HdrTableGap == << Str(S_ID), Null, Str(S_Amount) >>

TableHeaders == { HdrTable, HdrTableGap }

RowTitle == << Str(S_TitleRow), Null, Null >>

RowWidget == << Str(S_1), Str(S_Widget), Num(100) >>

RowGadget == << Str(S_2), Str(S_Gadget), Num(200) >>

RowSparse == << Str(S_2), Null, Real(7) >>

TableRowKinds == { RowWidget, RowGadget, RowSparse }

\* all sequences over S of length 0 .. n
SeqsUpTo(S, n) == UNION { [1..k -> S] : k \in 0..n }

MatrixGrids ==
  { << h >> \o rows : h \in MatrixHeaders, rows \in SeqsUpTo(MatrixRowKinds, MaxDataRows) }

TableGrids ==
  { title \o << h >> \o rows :
      title \in { <<>>, << RowTitle >> },
      h \in TableHeaders,
      rows \in SeqsUpTo(TableRowKinds, MaxDataRows) }

\* a matrix sheet whose category column carries a header of its own
S_BudgetLine == <<"B","u","d","g","e","t"," ","L","i","n","e">>

HdrLabelled == << Null, Str(S_BudgetLine), Str(S_Q1Budget), Str(S_Q2Budget), Str(S_H1Total) >>

\* a section marker of two words
S_HEADOFFICE == <<"H","E","A","D"," ","O","F","F","I","C","E">>

RowHeadOffice == << Str(S_HEADOFFICE), Null, Null, Null, Null >>

LabelledHeaders == { HdrStandard, HdrLabelled }

LabelledRowKinds == { RowSection, RowHeadOffice, RowSalaries, RowTravel }

\* sheets of a first department followed by up to MaxDataRows further rows
LabelledGrids ==
  { << h, RowSection, RowSalaries >> \o rows :
      h \in LabelledHeaders, rows \in SeqsUpTo(LabelledRowKinds, MaxDataRows) }

\* the budget sheet of the example at the head of matrix-normalizer.ts
MatrixScenario ==
  << HdrStandard,
     RowSection,
     << Null, Str(S_Salaries), Num(180000), Num(185000), Num(365000) >>,
     << Null, Str(S_Travel), Num(25000), Num(30000), Num(55000) >> >>

S_100 == <<"1","0","0">>

S_200 == <<"2","0","0">>

\* a sheet with a title line above its header and every cell held as text
TableScenario ==
  << << Str(S_TitleRow) >>,
     HdrTable,
     << Str(S_1), Str(S_Widget), Str(S_100) >>,
     << Str(S_2), Str(S_Gadget), Str(S_200) >> >>

\* the same sheet with its amounts held as numbers
TableScenarioNumbers == << << Str(S_TitleRow) >>, HdrTable, RowWidget, RowGadget >>

Grids ==
  MatrixGrids \cup TableGrids \cup LabelledGrids
    \cup { MatrixScenario, TableScenario, TableScenarioNumbers, <<>> }

AggPositionSets == { {} } \cup { {p} : p \in 0..MaxAggPos }

\* What the completion call may do: return a text, reject, or stay silent.
Completions ==
  { [kind |-> "json", cols |-> c, rows |-> r, conf |-> 80] :
      c \in AggPositionSets, r \in AggPositionSets }
  \cup { [kind |-> k, cols |-> {}, rows |-> {}, conf |-> 0] :
           k \in {"empty", "nojson", "badjson", "throw", "silent"} }

NoCompletion == [kind |-> "none", cols |-> {}, rows |-> {}, conf |-> 0]

\* ------------------------------------------------------------------------
\* SQL validation (lib/query/validator.ts)
\* ------------------------------------------------------------------------

\* the characters \s matches in the queries of the model
WhiteChars == {" ", "\n"}

\* String.prototype.trim on a query
TrimWs(s) ==
  LET idx == { i \in 1..Len(s) : s[i] \notin WhiteChars }
  IN  IF idx = {} THEN <<>>
      ELSE LET lo == CHOOSE i \in idx : \A j \in idx : i <= j
               hi == CHOOSE i \in idx : \A j \in idx : i >= j
           IN  SubSeq(s, lo, hi)

ToUpperChar(c) == IF c \in LowerChars THEN UpperMap[c] ELSE c

ToUpperCase(s) == [i \in 1..Len(s) |-> ToUpperChar(s[i])]

\* the literal p occurs in s at (1-based) position i
OccursAt(s, p, i) ==
  /\ i >= 1
  /\ i + Len(p) - 1 <= Len(s)
  /\ \A j \in 1..Len(p) : s[i + j - 1] = p[j]

\* String.prototype.includes
IncludesText(s, p) == \E i \in 1..(Len(s) + 1) : OccursAt(s, p, i)

\* replace(/--.*$/gm, ''): from "--" up to, not including, the end of the line
RECURSIVE StripLineComments(_)
StripLineComments(s) ==
  IF Len(s) = 0 THEN <<>>
  ELSE IF OccursAt(s, <<"-","-">>, 1)
  THEN LET ends == { i \in 1..Len(s) : s[i] = "\n" }
       IN  IF ends = {} THEN <<>>
           ELSE StripLineComments(
                  SubSeq(s, CHOOSE i \in ends : \A j \in ends : i <= j, Len(s)))
  ELSE << s[1] >> \o StripLineComments(Tail(s))

\* replace(/\/\*[\s\S]*?\*\//g, ''): from "/*" through the nearest "*/"; a
\* "/*" that is never closed stays
RECURSIVE StripBlockComments(_)
StripBlockComments(s) ==
  IF Len(s) = 0 THEN <<>>
  ELSE LET closes == { i \in 3..Len(s) : OccursAt(s, <<"*","/">>, i) }
       IN  IF OccursAt(s, <<"/","*">>, 1) /\ closes # {}
           THEN StripBlockComments(
                  SubSeq(s, (CHOOSE i \in closes : \A j \in closes : i <= j) + 2, Len(s)))
           ELSE << s[1] >> \o StripBlockComments(Tail(s))

\* replace(/\s+/g, ' ')
RECURSIVE CollapseWhitespace(_)
CollapseWhitespace(s) ==
  IF Len(s) = 0 THEN <<>>
  ELSE IF s[1] \in WhiteChars
  THEN IF Len(s) >= 2 /\ s[2] \in WhiteChars
       THEN CollapseWhitespace(Tail(s))
       ELSE << " " >> \o CollapseWhitespace(Tail(s))
  ELSE << s[1] >> \o CollapseWhitespace(Tail(s))

normalizeForValidation(sql) ==
  ToUpperCase(TrimWs(CollapseWhitespace(StripBlockComments(StripLineComments(sql)))))

\* the blocked keywords, in the order of the source, as the lower-case
\* literals of the case-insensitive patterns built from them
DANGEROUS_KEYWORDS ==
  << <<"i","n","s","e","r","t">>,
     <<"u","p","d","a","t","e">>,
     <<"d","e","l","e","t","e">>,
     <<"d","r","o","p">>,
     <<"a","l","t","e","r">>,
     <<"c","r","e","a","t","e">>,
     <<"t","r","u","n","c","a","t","e">>,
     <<"r","e","p","l","a","c","e">>,
     <<"m","e","r","g","e">>,
     <<"u","p","s","e","r","t">>,
     <<"g","r","a","n","t">>,
     <<"r","e","v","o","k","e">>,
     <<"a","t","t","a","c","h">>,
     <<"d","e","t","a","c","h">>,
     <<"c","o","p","y">>,
     <<"e","x","p","o","r","t">>,
     <<"i","m","p","o","r","t">>,
     <<"p","r","a","g","m","a">>,
     <<"v","a","c","u","u","m">>,
     <<"a","n","a","l","y","z","e">>,
     <<"l","o","a","d">>,
     <<"i","n","s","t","a","l","l">> >>

\* the first blocked keyword that occurs as a word, or <<>> for null
findDangerousKeyword(normalizedSql) ==
  LET hits == { k \in 1..Len(DANGEROUS_KEYWORDS) :
                  ContainsWordCI(normalizedSql, DANGEROUS_KEYWORDS[k]) }
  IN  IF hits = {} THEN <<>>
      ELSE DANGEROUS_KEYWORDS[CHOOSE k \in hits : \A j \in hits : k <= j]

K_SELECT == <<"S","E","L","E","C","T">>

K_WITH == <<"W","I","T","H">>

\* /^(SELECT|WITH)\b/
isReadOnlyQuery(normalizedSql) ==
  \/ OccursAt(normalizedSql, K_SELECT, 1) /\ WordBoundary(normalizedSql, Len(K_SELECT) + 1)
  \/ OccursAt(normalizedSql, K_WITH, 1) /\ WordBoundary(normalizedSql, Len(K_WITH) + 1)

MAX_QUERY_LENGTH == 10000

\* " LIMIT " followed by DEFAULT_ROW_LIMIT
LimitClause == <<" ","L","I","M","I","T"," ","1","0","0","0">>

\* /\bLIMIT\s+\d+/i
HasLimit(sql) ==
  \E i \in 1..Len(sql) :
    /\ OccursAtCI(sql, <<"l","i","m","i","t">>, i)
    /\ WordBoundary(sql, i)
    /\ \E d \in (i + 6)..Len(sql) :
         /\ sql[d] \in DigitChars
         /\ \A j \in (i + 5)..(d - 1) : sql[j] \in WhiteChars

\* /\bGROUP\s+BY\b/i
HasGroupBy(sql) ==
  \E i \in 1..Len(sql) :
    /\ OccursAtCI(sql, <<"g","r","o","u","p">>, i)
    /\ WordBoundary(sql, i)
    /\ \E b \in (i + 6)..Len(sql) :
         /\ OccursAtCI(sql, <<"b","y">>, b)
         /\ WordBoundary(sql, b + 2)
         /\ \A j \in (i + 5)..(b - 1) : sql[j] \in WhiteChars

AggregateFunctions ==
  { <<"C","O","U","N","T","(">>, <<"S","U","M","(">>, <<"A","V","G","(">>, <<"M","I","N","(">>, <<"M","A","X","(">> }

ensureLimit(sql) ==
  IF HasLimit(sql) THEN sql
  ELSE IF (\E fn \in AggregateFunctions : IncludesText(ToUpperCase(sql), fn)) \/ HasGroupBy(sql)
  THEN sql
  ELSE LET t == TrimWs(sql)
       IN  IF Len(t) > 0 /\ t[Len(t)] = ";"
           THEN SubSeq(t, 1, Len(t) - 1) \o LimitClause \o << ";" >>
           ELSE sql \o LimitClause

\* the result of the validator once the text is normalized
ValidateNormalized(trimmedSql, normalizedSql) ==
  IF findDangerousKeyword(normalizedSql) # <<>>
  THEN [ valid |-> FALSE, sanitizedSql |-> <<>>, error |-> "forbidden keyword" ]
  ELSE IF ~isReadOnlyQuery(normalizedSql)
  THEN [ valid |-> FALSE, sanitizedSql |-> <<>>, error |-> "must start with SELECT or WITH" ]
  ELSE [ valid |-> TRUE, sanitizedSql |-> ensureLimit(trimmedSql), error |-> "" ]

\* the validator of a variant that accepts whatever is not empty
validateSqlNonEmpty(sql) ==
  IF TrimWs(sql) = <<>>
  THEN [ valid |-> FALSE, sanitizedSql |-> <<>>, error |-> "Empty SQL query" ]
  ELSE [ valid |-> TRUE, sanitizedSql |-> ensureLimit(TrimWs(sql)), error |-> "" ]

\* validateSql; the empty text stands for null, undefined and ''
validateSql(sql) ==
  IF TrimWs(sql) = <<>>
  THEN [ valid |-> FALSE, sanitizedSql |-> <<>>, error |-> "Empty SQL query" ]
  ELSE IF Len(TrimWs(sql)) > MAX_QUERY_LENGTH
  THEN [ valid |-> FALSE, sanitizedSql |-> <<>>, error |-> "Query too long" ]
  ELSE ValidateNormalized(TrimWs(sql), normalizeForValidation(TrimWs(sql)))

\* ------------------------------------------------------------------------
\* Queries the language model may write
\* ------------------------------------------------------------------------

SqlLeads ==
  { <<>>, <<"-","-"," ","d","r","o","p"," ","i","t","\n">>, <<"/","*"," ","d","r","o","p"," ","*","/"," ">> }

SqlHeads ==
  { <<"S","E","L","E","C","T"," ","x">>,
    <<"s","e","l","e","c","t"," ","c","o","u","n","t","(","x",")">>,
    <<"W","I","T","H"," ","q"," ","A","S"," ","(","S","E","L","E","C","T"," ","x"," ","F","R","O","M"," ","t",")"," ","S","E","L","E","C","T"," ","x">>,
    <<"d","r","o","p"," ","t","a","b","l","e">>,
    <<"S","E","L","E","C","T","E","D"," ","x">> }

SqlSources ==
  { <<>>, <<" ","F","R","O","M"," ","t">>, <<" ","F","R","O","M"," ","u">> }

SqlTails ==
  { <<>>, <<";">>,
    <<" ","L","I","M","I","T"," ","5">>,
    <<" ","-","-"," ","d","r","o","p">>,
    <<";"," ","D","E","L","E","T","E"," ","F","R","O","M"," ","t">>,
    <<" ","/","*"," ","-","-"," ","*","/",";"," ","d","r","o","p"," ","t","a","b","l","e"," ","t">> }

SqlTexts ==
  { lead \o head \o source \o tail :
      lead \in SqlLeads, head \in SqlHeads, source \in SqlSources, tail \in SqlTails }

\* ------------------------------------------------------------------------
\* The pipeline for one sheet
\* ------------------------------------------------------------------------

VARIABLES
  data,            \* the evaluated grid of the sheet
  pc,              \* "start", "awaiting", "done", "failed", "loaded"
  llm,             \* what the pending completion call will do
  detection,       \* result of detectHeaderRow
  classification,  \* result of classifySheet
  analysis,        \* result of analyzeMatrixStructure
  sheet,           \* the ProcessedSheet
  table,           \* rows of the database table of the sheet
  wb,              \* the sheets of an uploaded workbook, in order
  wbpc,            \* "idle", "parsing", "processing", "processed", "rejected", "loaded"
  cursor,          \* index of the next sheet of the running loop
  processedSheets, \* processExcelFile's processedSheets array (sheet ids)
  tables,          \* loadWorkbookIntoDatabase's tables array (sheet ids)
  readable,        \* whether XLSX.read accepts the uploaded bytes
  response,        \* the response of POST /api/upload
  executor,        \* "server" (lib/query/executor.ts) or "browser" (the hook)
  attempt,         \* iterations of executeQuery's loop that have run
  step,            \* what the latest iteration did
  lastSql,         \* executeQuery's lastSql (<<>> for null)
  lastError,       \* executeQuery's lastError ("" for null)
  successes,       \* executions of SQL by the database that succeeded
  queryResult,     \* the QueryResult executeQuery returned
  sessions,        \* lib/session.ts: the sessions map, by upload id
  nextUpload,      \* the upload id the next createSession gets
  cleanupScheduled, \* lib/session.ts: cleanupScheduled
  timers,          \* pending setTimeout callbacks of scheduleCleanup
  run,             \* the cleanup run in progress
  browserTables,   \* the hook: files whose tables are in the browser database
  schemaRef,       \* the hook: schemaRef.current (0 for null), a file
  conversationRef, \* the hook: conversationRef.current, a file per entry
  asking           \* the hook: file of the question in flight (0 for none)

sheetVars == << data, pc, llm, detection, classification, analysis, sheet, table >>

uploadVars == << wb, wbpc, cursor, processedSheets, tables, readable, response >>

queryVars == << executor, attempt, step, lastSql, lastError, successes, queryResult >>

sessionVars == << sessions, nextUpload, cleanupScheduled, timers, run >>

browserVars == << browserTables, schemaRef, conversationRef, asking >>

\* the variables the processing of one sheet leaves alone
wbVars == << uploadVars, queryVars, sessionVars, browserVars >>

vars == << data, pc, llm, detection, classification, analysis, sheet, table,
           wb, wbpc, cursor, processedSheets, tables, readable, response,
           executor, attempt, step, lastSql, lastError, successes, queryResult,
           sessions, nextUpload, cleanupScheduled, timers, run,
           browserTables, schemaRef, conversationRef, asking >>

\* no response has been sent
NoResponse == [ status |-> 0, success |-> FALSE, sheets |-> <<>>, tables |-> <<>> ]

\* no iteration of executeQuery has run
NoStep ==
  [ generated |-> "none", sql |-> <<>>, valid |-> FALSE, executedSql |-> <<>>,
    db |-> "none", answer |-> "none" ]

\* executeQuery has not returned
NoResult == [ returned |-> FALSE, success |-> FALSE, sql |-> <<>>, error |-> "" ]

\* no question is being answered
QueryIdle ==
  /\ executor = "none"
  /\ attempt = 0
  /\ step = NoStep
  /\ lastSql = <<>>
  /\ lastError = ""
  /\ successes = 0
  /\ queryResult = NoResult

\* no sheet is being processed
SheetIdle ==
  /\ data = <<>>
  /\ pc = "idle"
  /\ llm = NoCompletion
  /\ detection = NoDetection
  /\ classification = NoClassification
  /\ analysis = defaultResult
  /\ sheet = createEmptySheet
  /\ table = <<>>

\* no workbook is being uploaded
UploadIdle ==
  /\ wb = <<>>
  /\ wbpc = "idle"
  /\ cursor = 1
  /\ processedSheets = <<>>
  /\ tables = <<>>
  /\ readable = TRUE
  /\ response = NoResponse

\* the number of uploads to the session store
MaxUploads == 3

\* the number of conversation entries that are told apart
MaxEntries == 2

\* an upload id without a session
NoSession == [ live |-> FALSE, idle |-> FALSE, entries |-> 0 ]

\* no cleanup run is in progress
NoRun == [ pc |-> "idle", queue |-> <<>> ]

\* the module state of lib/session.ts when the process starts
SessionsIdle ==
  /\ sessions = [ id \in 1..MaxUploads |-> NoSession ]
  /\ nextUpload = 1
  /\ cleanupScheduled = FALSE
  /\ timers = 0
  /\ run = NoRun

\* the refs of the hook when it is mounted
BrowserIdle ==
  /\ browserTables = {}
  /\ schemaRef = 0
  /\ conversationRef = <<>>
  /\ asking = 0

WorkbookIdle ==
  /\ UploadIdle
  /\ QueryIdle
  /\ SessionsIdle
  /\ BrowserIdle

Init ==
  /\ data \in Grids
  /\ pc = "start"
  /\ llm = NoCompletion
  /\ detection = NoDetection
  /\ classification = NoClassification
  /\ analysis = defaultResult
  /\ sheet = createEmptySheet
  /\ table = <<>>
  /\ WorkbookIdle

\* processSheet of a non-empty sheet once it is classified: a non-matrix sheet
\* is finished at once, a matrix sheet starts the completion call of
\* analyzeMatrixStructure and waits for it.
ProcessClassified(headerDetection, cl) ==
  /\ detection' = headerDetection
  /\ classification' = cl
  /\ IF cl.sheetType = "matrix"
     THEN IF Len(data) - (cl.periodHeaderRow + 1) = 0
          THEN /\ analysis' = defaultResult
               /\ sheet' = FinishMatrixSheet(data, cl, defaultResult)
               /\ pc' = "done"
               /\ llm' = llm
          ELSE /\ llm' \in Completions
               /\ pc' = "awaiting"
               /\ UNCHANGED << analysis, sheet >>
     ELSE /\ sheet' = processTableSheet(data, headerDetection)
          /\ pc' = "done"
          /\ UNCHANGED << llm, analysis >>

ProcessDetected(headerDetection) ==
  ProcessClassified(headerDetection, classifySheet(data, headerDetection.headerRow))

\* processSheet up to its first suspension
ProcessSheet ==
  /\ pc = "start"
  /\ IF Len(data) = 0
     THEN /\ sheet' = createEmptySheet
          /\ pc' = "done"
          /\ UNCHANGED << llm, detection, classification, analysis >>
     ELSE ProcessDetected(detectHeaderRow(data))
  /\ UNCHANGED << data, table >>
  /\ UNCHANGED wbVars

\* the completion call settles (returns or rejects): analyzeMatrixStructure
\* returns and processMatrixSheet normalizes the sheet
SettleAs(settled) ==
  /\ IF settled.raised
     THEN /\ pc' = "failed"
          /\ UNCHANGED << analysis, sheet >>
     ELSE /\ analysis' = settled.analysis
          /\ sheet' = FinishMatrixSheet(data, classification, settled.analysis)
          /\ pc' = "done"
  /\ UNCHANGED << data, llm, detection, classification, table >>
  /\ UNCHANGED wbVars

Settle == SettleAs(AnalyzerSettles(llm))

CompletionReturns ==
  /\ pc = "awaiting"
  /\ llm.kind \in {"json", "empty", "nojson", "badjson"}
  /\ Settle

CompletionRejects ==
  /\ pc = "awaiting"
  /\ llm.kind = "throw"
  /\ Settle

\* the loader's loop body for the sheet
LoadSheet ==
  /\ pc = "done"
  /\ IF Len(sheet.columns) = 0 \/ Len(sheet.data) = 0
     THEN table' = <<>>
     ELSE table' = insertData(sheet.columns, sheet.data)
  /\ pc' = "loaded"
  /\ UNCHANGED << data, llm, detection, classification, analysis, sheet >>
  /\ UNCHANGED wbVars

Next == ProcessSheet \/ CompletionReturns \/ CompletionRejects \/ LoadSheet

Spec == Init /\ [][Next]_vars

\* A step of Next changes pc, and one is possible in "start", in "done", and
\* in "awaiting" once the completion call has settled.
Advances ==
  /\ \/ pc = "start"
     \/ pc = "done"
     \/ pc = "awaiting" /\ llm.kind # "silent"
  /\ pc' \in {"awaiting", "done", "failed", "loaded"}
  /\ pc' # pc

\* The event loop runs every continuation that is ready; a completion call
\* that stays silent readies none.
FairSpec == Init /\ [][Next]_vars /\ WF_pc(Advances)

\* ------------------------------------------------------------------------
\* A workbook of several sheets: processExcelFile, then the loader
\* ------------------------------------------------------------------------

\* The number of sheets of a modelled workbook.
MaxSheets == 3

\* What matters of a sheet to the two loops:
\*   "ok"            processed and loaded without error
\*   "empty"         no columns or no rows; the loader skips it
\*   "processRaises" processSheet throws on it (for instance the argument
\*                   spread of countNumericColumnsInData on a very long sheet)
\*   "loadRaises"    db.loadSheet throws on it (for instance CREATE TABLE with
\*                   two columns of the same sanitized name)
SheetKinds == { "ok", "empty", "processRaises", "loadRaises" }

Workbooks == UNION { [1..k -> SheetKinds] : k \in 0..MaxSheets }

InitWorkbook ==
  /\ wb \in Workbooks
  /\ readable \in BOOLEAN
  /\ wbpc = "parsing"
  /\ cursor = 1
  /\ processedSheets = <<>>
  /\ tables = <<>>
  /\ response = NoResponse
  /\ SheetIdle
  /\ QueryIdle
  /\ SessionsIdle
  /\ BrowserIdle

\* parseExcelBuffer and evaluateFormulas: XLSX.read throws on bytes it cannot
\* read, which rejects processExcelFile; otherwise the sheets of the workbook,
\* however many, are handed to the loop
ParseWorkbook ==
  /\ wbpc = "parsing"
  /\ wbpc' = IF readable THEN "processing" ELSE "rejected"
  /\ UNCHANGED << wb, cursor, processedSheets, tables, readable, response >>
  /\ UNCHANGED << sheetVars, queryVars, sessionVars, browserVars >>

\* one iteration of `for (const sheet of evaluatedWorkbook.sheets)`: the
\* awaited processSheet either yields a ProcessedSheet, which is pushed, or
\* throws, which rejects processExcelFile as a whole
ProcessNextSheet ==
  /\ wbpc = "processing"
  /\ cursor <= Len(wb)
  /\ IF wb[cursor] = "processRaises"
     THEN /\ wbpc' = "rejected"
          /\ UNCHANGED << processedSheets, cursor >>
     ELSE /\ processedSheets' = Append(processedSheets, cursor)
          /\ cursor' = cursor + 1
          /\ wbpc' = wbpc
  /\ UNCHANGED << wb, tables, readable, response >>
  /\ UNCHANGED << sheetVars, queryVars, sessionVars, browserVars >>

\* the loop is over: processExcelFile returns the workbook
ReturnWorkbook ==
  /\ wbpc = "processing"
  /\ cursor > Len(wb)
  /\ wbpc' = "processed"
  /\ cursor' = 1
  /\ UNCHANGED << wb, processedSheets, tables, readable, response >>
  /\ UNCHANGED << sheetVars, queryVars, sessionVars, browserVars >>

\* one iteration of the loader's loop over workbook.sheets
LoadNextSheet ==
  /\ wbpc = "processed"
  /\ cursor <= Len(processedSheets)
  /\ LET id == processedSheets[cursor]
     IN  IF wb[id] = "empty" THEN tables' = tables
         ELSE IF wb[id] = "loadRaises" THEN tables' = tables
         ELSE tables' = Append(tables, id)
  /\ cursor' = cursor + 1
  /\ UNCHANGED << wb, wbpc, processedSheets, readable, response >>
  /\ UNCHANGED << sheetVars, queryVars, sessionVars, browserVars >>

\* the loader returns the schema
ReturnSchema ==
  /\ wbpc = "processed"
  /\ cursor > Len(processedSheets)
  /\ wbpc' = "loaded"
  /\ UNCHANGED << wb, cursor, processedSheets, tables, readable, response >>
  /\ UNCHANGED << sheetVars, queryVars, sessionVars, browserVars >>

\* processExcelFile has been entered, whether or not it has returned
WorkbookStarted == wbpc \in {"processing", "processed", "loaded"}

\* `const workbook = await processExcelFile(buffer, fileName)` has returned
WorkbookReturned == wbpc \in {"processed", "loaded"}

\* the sheets of workbook.sheets that have columns and rows
WithColumnsAndRows(id) == wb[id] # "empty"

\* steps 2 and 3 of the upload route and its response: the tables of the
\* schema are the sheets of the returned workbook that have columns and rows,
\* detectBasicRelationships works on these tables, and every sheet of the
\* workbook is reported
RespondSchema ==
  /\ WorkbookReturned
  /\ response = NoResponse
  /\ response' = [ status |-> 200, success |-> TRUE,
                   sheets |-> processedSheets,
                   tables |-> SelectSeq(processedSheets, WithColumnsAndRows) ]
  /\ UNCHANGED << wb, wbpc, cursor, processedSheets, tables, readable >>
  /\ UNCHANGED << sheetVars, queryVars, sessionVars, browserVars >>

\* the catch clause of the upload route: one error response, status 500
RespondError ==
  /\ wbpc = "rejected"
  /\ response = NoResponse
  /\ response' = [ status |-> 500, success |-> FALSE,
                   sheets |-> <<>>, tables |-> <<>> ]
  /\ UNCHANGED << wb, wbpc, cursor, processedSheets, tables, readable >>
  /\ UNCHANGED << sheetVars, queryVars, sessionVars, browserVars >>

NextWorkbook ==
  \/ ParseWorkbook \/ ProcessNextSheet \/ ReturnWorkbook
  \/ LoadNextSheet \/ ReturnSchema
  \/ RespondSchema \/ RespondError

SpecWorkbook == InitWorkbook /\ [][NextWorkbook]_vars

\* ------------------------------------------------------------------------
\* Header detection and classification applied to a grid on their own
\* ------------------------------------------------------------------------

S_RefNo == <<"R","e","f"," ","N","o">>

S_Date == <<"2","0","2","4","-","0","1","-","0","5">>

HdrRefNo == << Str(S_ID), Str(S_Name), Str(S_RefNo) >>

TypedHeaders == { HdrTable, HdrRefNo }

\* what the third cell of a data row may hold: values of the four typed kinds
\* and no value
TypedCells == { Num(100), Real(7), Bool(TRUE), Str(S_Date), Null }

MaxTypedRows == 4

\* tables whose third column holds no text but date text
TypedGrids ==
  { << HdrTable >> \o rows :
      rows \in SeqsUpTo({ << Str(S_1), Str(S_Widget), c >> : c \in TypedCells }, MaxTypedRows) }

\* numbers, text and empty cells; one row lacks the third cell
MixedRows ==
  { << Str(S_1), Str(S_Widget), c >> :
      c \in { Num(100), Str(S_100), Str(S_na), Null, Str(<<>>) } }
    \cup { << Str(S_1), Str(S_Widget) >> }

MaxMixedRows == 3

\* tables whose third column is an amount or a reference number
MixedGrids ==
  { << h >> \o rows : h \in TypedHeaders, rows \in SeqsUpTo(MixedRows, MaxMixedRows) }

S_RepID == <<"R","e","p"," ","I","D">>

S_ItemCode == <<"I","t","e","m"," ","C","o","d","e">>

S_ApiKey == <<"A","p","i"," ","K","e","y">>

S_DocRef == <<"D","o","c"," ","R","e","f">>

S_PONumber == <<"P","O"," ","N","u","m","b","e","r">>

HdrIds ==
  << Str(S_RepID), Str(S_ItemCode), Str(S_ApiKey), Str(S_DocRef), Str(S_RefNo), Str(S_PONumber) >>

\* tables of identifier columns whose cells are all numbers
IdGrids ==
  { << HdrIds >> \o rows :
      rows \in SeqsUpTo({ << Num(1), Num(2), Num(3), Num(4), Num(5), Num(6) >>,
                          << Num(7), Real(8), Num(9), Real(10), Num(11), Num(12) >> },
                        MaxMixedRows) }

\* rows without a header: no cell, empty cells, a title
SparseRows == { <<>>, << Null, Null, Null >>, RowTitle, << Str(S_TitleRow) >> }

MaxSparseRows == 3

SparseGrids == SeqsUpTo(SparseRows, MaxSparseRows)

\* sheets whose header lies near the end of the scanned rows or past it
LongGrids ==
  { [ i \in 1..k |-> filler ] \o << HdrTable, RowWidget >> :
      k \in (MAX_SCAN_ROWS - 2)..(MAX_SCAN_ROWS + 1),
      filler \in { RowTitle, << Null, Null, Null >> } }

S_TOTAL == <<"T","O","T","A","L">>

RowTotal == << Str(S_TOTAL), Null, Num(4), Num(6), Num(10) >>

MaxTotalRows == 3

\* sheets with a period header whose rows are budget lines and total rows
TotalGrids ==
  { << HdrStandard >> \o rows :
      rows \in SeqsUpTo({ RowTotal, RowSubtotal, RowSalaries, RowTravel }, MaxTotalRows) }

DetectGrids ==
  SparseGrids \cup TableGrids \cup TypedGrids \cup MixedGrids \cup IdGrids \cup LongGrids
    \cup TotalGrids \cup { TableScenario, TableScenarioNumbers }

InitDetect ==
  /\ data \in DetectGrids
  /\ pc = "detect"
  /\ llm = NoCompletion
  /\ detection = NoDetection
  /\ classification = NoClassification
  /\ analysis = defaultResult
  /\ sheet = createEmptySheet
  /\ table = <<>>
  /\ WorkbookIdle

\* detectHeaderRow(data)
DetectHeader ==
  /\ pc = "detect"
  /\ detection' = detectHeaderRow(data)
  /\ pc' = "classify"
  /\ UNCHANGED << data, llm, classification, analysis, sheet, table >>
  /\ UNCHANGED wbVars

\* classifySheet(data, headerDetection.headerRow)
ClassifyDetected ==
  /\ pc = "classify"
  /\ classification' = classifySheet(data, detection.headerRow)
  /\ pc' = "classified"
  /\ UNCHANGED << data, llm, detection, analysis, sheet, table >>
  /\ UNCHANGED wbVars

NextDetect == DetectHeader \/ ClassifyDetected

SpecDetect == InitDetect /\ [][NextDetect]_vars

\* ------------------------------------------------------------------------
\* Answering a question: executeQuery of lib/query/executor.ts ("server") and
\* of hooks/use-browser-db.ts ("browser", which asks POST /api/sql for the SQL)
\* ------------------------------------------------------------------------

MAX_RETRIES == 3

\* what generateCompletion may yield: a query, no query, or an exception
Generations ==
  { [ kind |-> "sql", sql |-> q ] : q \in SqlTexts }
    \cup { [ kind |-> "none", sql |-> <<>> ], [ kind |-> "throw", sql |-> <<>> ] }

\* the database runs the query, rejects it, or the 5 s timer of
\* executeWithTimeout (server only) fires first
DbOutcomes == { "ok", "error", "timeout" }

\* POST /api/answer answers, answers with success: false, or the fetch rejects
AnswerOutcomes == { "ok", "failed", "throw" }

InitQuery ==
  /\ executor \in { "server", "browser" }
  /\ attempt = 0
  /\ step = NoStep
  /\ lastSql = <<>>
  /\ lastError = ""
  /\ successes = 0
  /\ queryResult = NoResult
  /\ SheetIdle
  /\ UploadIdle
  /\ SessionsIdle
  /\ BrowserIdle

\* validateSql of every query the language model may write
ValidationOf == [ q \in SqlTexts |-> validateSql(q) ]

\* the iteration ends without a result: the catch clause or `continue`
ContinueWith(error, taken) ==
  /\ attempt' = attempt + 1
  /\ lastError' = error
  /\ step' = taken
  /\ queryResult' = queryResult

\* the iteration returns from executeQuery
ReturnWith(result, taken) ==
  /\ attempt' = attempt + 1
  /\ lastError' = lastError
  /\ step' = taken
  /\ queryResult' = result

\* an iteration of lib/query/executor.ts that does not reach the database
ServerReject(gen) ==
  IF gen.kind = "throw"
  THEN /\ ContinueWith("generation", [ NoStep EXCEPT !.generated = "throw" ])
       /\ UNCHANGED << lastSql, successes >>
  ELSE IF gen.kind = "none"
  THEN /\ ReturnWith([ returned |-> TRUE, success |-> FALSE, sql |-> <<>>,
                       error |-> "Could not generate a SQL query for this question" ],
                     [ NoStep EXCEPT !.generated = "none" ])
       /\ UNCHANGED << lastSql, successes >>
  ELSE /\ ContinueWith(ValidationOf[gen.sql].error, [ NoStep EXCEPT !.generated = "sql" ])
       /\ lastSql' = gen.sql
       /\ successes' = successes

\* an iteration of lib/query/executor.ts whose SQL is valid
ServerExecute(sql, safeSql, db) ==
  LET taken == [ generated |-> "sql", sql |-> sql, valid |-> TRUE,
                 executedSql |-> safeSql, db |-> db,
                 answer |-> IF db = "ok" THEN "ok" ELSE "none" ]
  IN  /\ lastSql' = sql
      /\ IF db = "ok"
         THEN /\ successes' = successes + 1
              /\ ReturnWith([ returned |-> TRUE, success |-> TRUE,
                              sql |-> safeSql, error |-> "" ], taken)
         ELSE /\ successes' = successes
              /\ ContinueWith(db, taken)

IterateServer ==
  /\ executor = "server"
  /\ ~queryResult.returned
  /\ attempt < MAX_RETRIES
  /\ \E gen \in Generations :
       IF gen.kind = "sql" /\ ValidationOf[gen.sql].valid
       THEN \E db \in DbOutcomes :
              ServerExecute(gen.sql, ValidationOf[gen.sql].sanitizedSql, db)
       ELSE ServerReject(gen)
  /\ UNCHANGED << executor, sheetVars, uploadVars, sessionVars, browserVars >>

\* an iteration of the hook for which POST /api/sql answers success: false
BrowserReject(gen) ==
  /\ ContinueWith(IF gen.kind = "sql" THEN ValidationOf[gen.sql].error
                  ELSE "Could not generate SQL",
                  [ NoStep EXCEPT !.generated = gen.kind ])
  /\ UNCHANGED << lastSql, successes >>

\* an iteration of the hook for which POST /api/sql answers with SQL, which
\* the hook executes before it asks POST /api/answer for the answer
BrowserExecute(sql, safeSql, db, answer) ==
  LET taken == [ generated |-> "sql", sql |-> sql, valid |-> TRUE,
                 executedSql |-> safeSql, db |-> db,
                 answer |-> IF db = "ok" THEN answer ELSE "none" ]
  IN  /\ lastSql' = safeSql
      /\ successes' = IF db = "ok" THEN successes + 1 ELSE successes
      /\ IF db = "ok" /\ answer # "throw"
         THEN ReturnWith([ returned |-> TRUE, success |-> TRUE,
                           sql |-> safeSql, error |-> "" ], taken)
         ELSE ContinueWith(IF db = "ok" THEN "answer" ELSE db, taken)

IterateBrowser ==
  /\ executor = "browser"
  /\ ~queryResult.returned
  /\ attempt < MAX_RETRIES
  /\ \E gen \in Generations :
       IF gen.kind = "sql" /\ ValidationOf[gen.sql].valid
       THEN \E db \in { "ok", "error" }, answer \in AnswerOutcomes :
              BrowserExecute(gen.sql, ValidationOf[gen.sql].sanitizedSql, db, answer)
       ELSE BrowserReject(gen)
  /\ UNCHANGED << executor, sheetVars, uploadVars, sessionVars, browserVars >>

\* the code after the loop: "All retries exhausted"
ReturnExhausted ==
  /\ executor \in { "server", "browser" }
  /\ ~queryResult.returned
  /\ attempt = MAX_RETRIES
  /\ queryResult' = [ returned |-> TRUE, success |-> FALSE, sql |-> lastSql,
                      error |-> lastError ]
  /\ UNCHANGED << executor, attempt, step, lastSql, lastError, successes >>
  /\ UNCHANGED << sheetVars, uploadVars, sessionVars, browserVars >>

NextQuery == IterateServer \/ IterateBrowser \/ ReturnExhausted

SpecQuery == InitQuery /\ [][NextQuery]_vars

\* ------------------------------------------------------------------------
\* The session store of the server (lib/session.ts)
\* ------------------------------------------------------------------------

\* the upload ids that have a session
LiveSessions(map) == { id \in 1..MaxUploads : map[id].live }

\* scheduleCleanup(): the flag and the number of pending timers afterwards
scheduleCleanup(scheduled, pending) ==
  IF scheduled
  THEN [ scheduled |-> TRUE, timers |-> pending ]
  ELSE [ scheduled |-> TRUE, timers |-> pending + 1 ]

\* the end of the timer callback: "Reschedule if there are still sessions"
Reschedule(map, scheduled, pending) ==
  IF LiveSessions(map) # {}
  THEN scheduleCleanup(scheduled, pending)
  ELSE [ scheduled |-> scheduled, timers |-> pending ]

\* the ids cleanupExpiredSessions collects, in the order of the map
ExpiredIds(map) ==
  SelectSeq([ id \in 1..MaxUploads |-> id ],
            LAMBDA id : map[id].live /\ map[id].idle)

InitSessions ==
  /\ SessionsIdle
  /\ SheetIdle
  /\ UploadIdle
  /\ QueryIdle
  /\ BrowserIdle

\* createSession, called by POST /api/upload once a workbook is loaded:
\* the new session is added under its own upload id
CreateSession ==
  /\ nextUpload <= MaxUploads
  /\ sessions' = [ sessions EXCEPT
                     ![nextUpload] = [ live |-> TRUE, idle |-> FALSE, entries |-> 0 ] ]
  /\ nextUpload' = nextUpload + 1
  /\ cleanupScheduled' = scheduleCleanup(cleanupScheduled, timers).scheduled
  /\ timers' = scheduleCleanup(cleanupScheduled, timers).timers
  /\ run' = run
  /\ UNCHANGED << sheetVars, uploadVars, queryVars, browserVars >>

\* getSession: lastAccess becomes now
GetSession ==
  /\ \E id \in LiveSessions(sessions) :
       sessions' = [ sessions EXCEPT ![id].idle = FALSE ]
  /\ UNCHANGED << nextUpload, cleanupScheduled, timers, run >>
  /\ UNCHANGED << sheetVars, uploadVars, queryVars, browserVars >>

\* addConversationEntry
AddConversationEntry ==
  /\ \E id \in LiveSessions(sessions) :
       /\ sessions[id].entries < MaxEntries
       /\ sessions' = [ sessions EXCEPT ![id].entries = @ + 1 ]
  /\ UNCHANGED << nextUpload, cleanupScheduled, timers, run >>
  /\ UNCHANGED << sheetVars, uploadVars, queryVars, browserVars >>

\* SESSION_TIMEOUT_MS pass without an access to the session
SessionTimesOut ==
  /\ \E id \in LiveSessions(sessions) :
       /\ ~sessions[id].idle
       /\ sessions' = [ sessions EXCEPT ![id].idle = TRUE ]
  /\ UNCHANGED << nextUpload, cleanupScheduled, timers, run >>
  /\ UNCHANGED << sheetVars, uploadVars, queryVars, browserVars >>

\* deleteSession called from outside the cleanup, its close succeeding
DeleteSession ==
  /\ \E id \in LiveSessions(sessions) :
       sessions' = [ sessions EXCEPT ![id] = NoSession ]
  /\ UNCHANGED << nextUpload, cleanupScheduled, timers, run >>
  /\ UNCHANGED << sheetVars, uploadVars, queryVars, browserVars >>

\* the timer callback up to its first suspension: the flag is cleared and
\* cleanupExpiredSessions collects the expired ids; with none to delete the
\* callback ends at once, otherwise it waits for the first db.close()
TimerFires ==
  /\ timers > 0
  /\ run.pc = "idle"
  /\ IF ExpiredIds(sessions) = <<>>
     THEN /\ run' = run
          /\ cleanupScheduled' = Reschedule(sessions, FALSE, timers - 1).scheduled
          /\ timers' = Reschedule(sessions, FALSE, timers - 1).timers
     ELSE /\ run' = [ pc |-> "closing", queue |-> ExpiredIds(sessions) ]
          /\ cleanupScheduled' = FALSE
          /\ timers' = timers - 1
  /\ UNCHANGED << sessions, nextUpload >>
  /\ UNCHANGED << sheetVars, uploadVars, queryVars, browserVars >>

\* the rest of the run once the session at the head of the queue is deleted
AfterDelete(map, rest) ==
  /\ sessions' = map
  /\ IF rest = <<>>
     THEN /\ run' = NoRun
          /\ cleanupScheduled' = Reschedule(map, cleanupScheduled, timers).scheduled
          /\ timers' = Reschedule(map, cleanupScheduled, timers).timers
     ELSE /\ run' = [ pc |-> "closing", queue |-> rest ]
          /\ UNCHANGED << cleanupScheduled, timers >>

\* db.close() of the session being deleted resolves: the session leaves the
\* map and the run goes on with the next expired id that still has a session
CloseSucceeds ==
  /\ run.pc = "closing"
  /\ AfterDelete([ sessions EXCEPT ![Head(run.queue)] = NoSession ],
                 SelectSeq(Tail(run.queue),
                           LAMBDA id : sessions[id].live /\ id # Head(run.queue)))
  /\ UNCHANGED nextUpload
  /\ UNCHANGED << sheetVars, uploadVars, queryVars, browserVars >>

\* db.close() rejects: deleteSession, cleanupExpiredSessions and the timer
\* callback reject in turn, and the callback's last statement is not reached
CloseFails ==
  /\ run.pc = "closing"
  /\ run' = NoRun
  /\ UNCHANGED << sessions, nextUpload, cleanupScheduled, timers >>
  /\ UNCHANGED << sheetVars, uploadVars, queryVars, browserVars >>

NextSessions ==
  \/ CreateSession \/ GetSession \/ AddConversationEntry \/ SessionTimesOut
  \/ DeleteSession \/ TimerFires \/ CloseSucceeds \/ CloseFails

SpecSessions == InitSessions /\ [][NextSessions]_vars

\* a pending timer fires after its minute, and a close that was started
\* settles one way or the other
FairSpecSessions ==
  /\ InitSessions
  /\ [][NextSessions]_vars
  /\ WF_vars(TimerFires)
  /\ WF_vars(CloseSucceeds \/ CloseFails)

\* ------------------------------------------------------------------------
\* The database of the browser (hooks/use-browser-db.ts)
\* ------------------------------------------------------------------------

\* the number of files uploaded one after the other
MaxFiles == 3

\* the newest file the hook has seen
NewestFile ==
  CHOOSE f \in 0..MaxFiles :
    /\ f \in browserTables \cup { schemaRef }
    /\ \A g \in browserTables \cup { schemaRef } : g <= f

InitBrowser ==
  /\ BrowserIdle
  /\ SheetIdle
  /\ UploadIdle
  /\ QueryIdle
  /\ SessionsIdle

\* loadSheets resolves: the existing tables are dropped, the tables of the
\* file are created and filled, the schema is stored and the conversation
\* is reset
LoadSheets ==
  /\ \E f \in (NewestFile + 1)..MaxFiles :
       /\ browserTables' = { f }
       /\ schemaRef' = f
  /\ conversationRef' = <<>>
  /\ asking' = asking
  /\ UNCHANGED << sheetVars, uploadVars, queryVars, sessionVars >>

\* loadSheets rejects on a CREATE TABLE or an INSERT: the existing tables
\* are dropped already, tables of the file may exist, and the last two
\* statements are not reached
LoadSheetsFails ==
  /\ \E f \in (NewestFile + 1)..MaxFiles : browserTables' \in { {}, { f } }
  /\ UNCHANGED << schemaRef, conversationRef, asking >>
  /\ UNCHANGED << sheetVars, uploadVars, queryVars, sessionVars >>

\* reset
ResetDb ==
  /\ schemaRef # 0 \/ browserTables # {} \/ conversationRef # <<>>
  /\ browserTables' = {}
  /\ schemaRef' = 0
  /\ conversationRef' = <<>>
  /\ asking' = asking
  /\ UNCHANGED << sheetVars, uploadVars, queryVars, sessionVars >>

\* executeQuery of the hook is called with a question about the loaded file
StartQuestion ==
  /\ schemaRef # 0
  /\ asking = 0
  /\ Len(conversationRef) < MaxEntries
  /\ asking' = schemaRef
  /\ UNCHANGED << browserTables, schemaRef, conversationRef >>
  /\ UNCHANGED << sheetVars, uploadVars, queryVars, sessionVars >>

\* executeQuery of the hook returns: with a result or after the last retry,
\* it appends an entry for the question to the conversation
FinishQuestion ==
  /\ asking # 0
  /\ Len(conversationRef) < MaxEntries
  /\ conversationRef' = Append(conversationRef, asking)
  /\ asking' = 0
  /\ UNCHANGED << browserTables, schemaRef >>
  /\ UNCHANGED << sheetVars, uploadVars, queryVars, sessionVars >>

NextBrowser ==
  LoadSheets \/ LoadSheetsFails \/ ResetDb \/ StartQuestion \/ FinishQuestion

SpecBrowser == InitBrowser /\ [][NextBrowser]_vars

\* ------------------------------------------------------------------------
\* Properties of the normalized matrix sheet
\* ------------------------------------------------------------------------

\* the sheet went through normalizeMatrix and its rows are final
MatrixDone == pc \in {"done", "loaded"} /\ sheet.sheetType = "matrix"

\* twice the numeric value of a number cell (values are n + h/2)
Doubled(cell) == 2 * cell.n + cell.h

\* C1: an emitted row has is_aggregate = TRUE exactly when the position of its
\* period column relative to the data region (its column index minus
\* labelColumnCount) is among the analyzer's aggregate column positions, or
\* the position of its source row relative to the first row after the header
\* is among the analyzer's aggregate row positions.
C1_AggregateByRelativePosition ==
  MatrixDone =>
    \A i \in 1..Len(sheet.norm.rows) :
      LET r == sheet.norm.rows[i]
      IN  r.is_aggregate <=>
            \/ (r.srcCol - LabelColumnCountOf(classification)) \in analysis.aggregateColumns
            \/ (r.srcRow - classification.periodHeaderRow - 1) \in analysis.aggregateRows

RoundTripSheet ==
  /\ Len(data) > 1
  /\ data[1] = HdrStandard
  /\ \A i \in 2..Len(data) :
       \/ isEmptyRow(data[i])
       \/ detectSectionMarker(data[i]).found
       \/ /\ IsNum(At(data[i], 2)) /\ IsNum(At(data[i], 3)) /\ IsNum(At(data[i], 4))
          /\ Doubled(At(data[i], 4)) = Doubled(At(data[i], 2)) + Doubled(At(data[i], 3))

\* C3: round-trip sum.  On the example sheet, when the analyzer names the
\* H1 Total column by its position relative to the data region (2), for every
\* (section, category) pair the amounts of the non-aggregate Q1 Budget and
\* Q2 Budget rows add up to the amount of the pair's H1 Total rows, which are
\* aggregate rows.
C3_RoundTripSum ==
  ( /\ MatrixDone
    /\ RoundTripSheet
    /\ analysis.aggregateColumns = {2}
    /\ analysis.aggregateRows = {} ) =>
    \A i \in 1..Len(sheet.norm.rows) :
      LET t == sheet.norm.rows[i]
          SamePair(r) == r.department = t.department /\ r.category = t.category
          Addend(r) == /\ SamePair(r) /\ ~r.is_aggregate
                       /\ r.period \in { S_Q1Budget, S_Q2Budget }
          Total(r) == SamePair(r) /\ r.is_aggregate /\ r.period = S_H1Total
          DoubledAmounts(keep(_)) ==
            LET kept == SelectSeq(sheet.norm.rows, keep)
            IN  [ j \in 1..Len(kept) |-> Doubled(kept[j].amount) ]
      IN  t.period = S_H1Total =>
            /\ t.is_aggregate
            /\ SumSeq(DoubledAmounts(Addend)) = SumSeq(DoubledAmounts(Total))

\* C4: when the completion call rejects or its text cannot be parsed, the
\* matrix sheet is still processed to the end: the analysis is the empty
\* default, every emitted row has is_aggregate = FALSE, and nothing is raised
\* to the caller.
C4_AnalyzerFailureAbsorbed ==
  ( llm.kind \in {"throw", "empty", "nojson", "badjson"} /\ pc # "awaiting" ) =>
    /\ pc \in {"done", "loaded"}
    /\ sheet.sheetType = "matrix"
    /\ analysis.aggregateColumns = {} /\ analysis.aggregateRows = {}
    /\ sheet.norm.aggregateRowIndices = {}
    /\ sheet.norm.aggregateColumnIndices = <<>>
    /\ \A i \in 1..Len(sheet.norm.rows) : ~sheet.norm.rows[i].is_aggregate

\* a rejected completion call on a matrix sheet that yields rows
C4_Witness ==
  /\ pc = "done"
  /\ llm.kind = "throw"
  /\ sheet.sheetType = "matrix"
  /\ Len(sheet.norm.rows) > 1

\* C5: the wait for the aggregate analyzer is bounded: a matrix sheet that
\* waits for the completion call eventually proceeds, also when the call
\* never settles.
C5_AnalyzerWaitBounded == (pc = "awaiting") ~> (pc \in {"done", "loaded"})

\* ------------------------------------------------------------------------
\* Properties of the workbook loops
\* ------------------------------------------------------------------------

\* the sheets the caller of processExcelFile receives
ReturnedSheets ==
  IF wbpc \in {"processed", "loaded"}
  THEN { processedSheets[j] : j \in 1..Len(processedSheets) }
  ELSE {}

\* C6: an error raised while processing one sheet does not abort the others:
\* once the upload has been handled, every sheet other than the failing ones
\* has been processed and returned.
C6_SheetErrorIsolated ==
  ( readable /\ wbpc \in {"rejected", "loaded"} ) =>
    \A i \in 1..Len(wb) : wb[i] # "processRaises" => i \in ReturnedSheets

\* ------------------------------------------------------------------------
\* Properties of classification, emission and loading
\* ------------------------------------------------------------------------

\* C7: a non-empty sheet is classified MATRIX exactly when its matrix
\* confidence (the sum of the three evidence scores) is at least 60.
C7_MatrixIffConfidenceAtLeast60 ==
  ( pc # "start" /\ Len(data) > 0 ) =>
    ( classification.sheetType = "matrix"
        <=> scanForMatrixPattern(data).confidence >= 60 )

\* rows after the period header that are neither blank nor section markers
IsDataRow(row) == ~isEmptyRow(row) /\ ~detectSectionMarker(row).found

DataRowIndices ==
  { idx \in (classification.periodHeaderRow + 1)..(Len(data) - 1) :
      IsDataRow(data[idx + 1]) }

PeriodColumnsOfSheet ==
  findPeriodColumns(data[classification.periodHeaderRow + 1],
                    classification.periodHeaders)

NumericPeriodCells(row, periodColumns) ==
  Cardinality({ i \in 1..Len(periodColumns) :
                  IsNum(At(row, periodColumns[i].index)) })

EmittedFrom(idx) ==
  Cardinality({ i \in 1..Len(sheet.norm.rows) : sheet.norm.rows[i].srcRow = idx })

C9_ValuesUnderOwnHeader ==
  ( pc = "loaded" /\ sheet.sheetType = "table" ) =>
    /\ \A i \in 1..Len(sheet.columns) :
         NotNullNotEmpty(At(data[sheet.headerRow + 1], sheet.columns[i].pos))
    /\ \A r \in 1..Len(table) : \A i \in 1..Len(sheet.columns) :
         table[r][i] = bindValue(At(sheet.data[r], sheet.columns[i].pos),
                                 sheet.columns[i].type)

\* whether the period column an emitted row came from is flagged
ColumnFlagged(r, periodColumns, status) ==
  \E i \in 1..Len(periodColumns) :
    periodColumns[i].index = r.srcCol /\ status[i]

\* the status of the sheet's period columns, as normalizeMatrix computes it
StatusOfSheet(periodColumns) ==
  periodColumnAggregateStatus(periodColumns, analysis.aggregateColumns)

\* the number of data rows between the header and row idx
SubstantiveIndex(idx) == Cardinality({ j \in DataRowIndices : j < idx })

\* C10 as stated: the row position compared with the aggregate row positions
\* numbers the substantive data rows only; blank rows and section-marker rows
\* do not advance it.
C10_RowPositionCountsDataRows ==
  MatrixDone =>
    LET periodColumns == PeriodColumnsOfSheet
        status == StatusOfSheet(periodColumns)
    IN  \A i \in 1..Len(sheet.norm.rows) :
          LET r == sheet.norm.rows[i]
          IN  r.is_aggregate <=>
                \/ ColumnFlagged(r, periodColumns, status)
                \/ SubstantiveIndex(r.srcRow) \in analysis.aggregateRows

\* C10 amended: the row position compared with the aggregate row positions is
\* the row's offset from the first row after the header; every row after the
\* header, blank and section-marker rows included, advances it.
C10_RowPositionCountsEveryRow ==
  MatrixDone =>
    LET periodColumns == PeriodColumnsOfSheet
        status == StatusOfSheet(periodColumns)
    IN  \A i \in 1..Len(sheet.norm.rows) :
          LET r == sheet.norm.rows[i]
              offset == r.srcRow - classification.periodHeaderRow - 1
          IN  /\ r.rowPos = offset
              /\ r.is_aggregate <=>
                    \/ ColumnFlagged(r, periodColumns, status)
                    \/ offset \in analysis.aggregateRows

\* a row flagged through its position, with a blank or section-marker row
\* between the header and it
C10_Witness ==
  /\ MatrixDone
  /\ analysis.aggregateColumns = {}
  /\ \E i \in 1..Len(sheet.norm.rows) :
       LET r == sheet.norm.rows[i]
       IN  /\ r.is_aggregate
           /\ r.rowPos \in analysis.aggregateRows
           /\ SubstantiveIndex(r.srcRow) < r.rowPos

\* ------------------------------------------------------------------------
\* Period columns and the label area
\* ------------------------------------------------------------------------

\* positions of the header cells outside the label area that are non-empty
\* text of the period vocabulary
PeriodPositionsOutsideLabels ==
  LET headerRow == data[classification.periodHeaderRow + 1]
  IN  { i \in LabelColumnCountOf(classification)..(Len(headerRow) - 1) :
          LET cell == At(headerRow, i)
          IN  /\ IsStr(cell)
              /\ Trim(cell.s) # <<>>
              /\ \/ Includes(classification.periodHeaders, cell.s)
                 \/ isPeriodLikeHeader(cell.s) }

\* C11: the period columns the normalizer selects are exactly the columns at
\* an index >= labelColumnCount whose header is non-empty period text; no
\* column inside the label area is selected or unpivoted.
C11_PeriodColumnsOutsideLabelArea ==
  (MatrixDone /\ ~sheet.norm.basic) =>
    LET eligible == PeriodPositionsOutsideLabels
    IN  /\ Len(sheet.norm.originalHeaders) = Cardinality(eligible)
        /\ \A i \in 1..Len(sheet.norm.rows) : sheet.norm.rows[i].srcCol \in eligible
        /\ \A j \in 1..Len(sheet.norm.aggregateColumnIndices) :
             sheet.norm.aggregateColumnIndices[j] \in eligible

\* ------------------------------------------------------------------------
\* Section tracking
\* ------------------------------------------------------------------------

\* every word of the text with its first letter kept and the rest lowered
TitleCased(name) ==
  [ i \in 1..Len(name) |->
      IF i = 1 \/ name[i - 1] \in SpaceChars THEN name[i] ELSE ToLowerChar(name[i]) ]

IsMarkerRow(row) == ~isEmptyRow(row) /\ detectSectionMarker(row).found

\* 0-based indices of the section-marker rows between the header and row idx
MarkersAbove(idx) ==
  { m \in (classification.periodHeaderRow + 1)..(idx - 1) : IsMarkerRow(data[m + 1]) }

SectionAbove(idx) ==
  LET above == MarkersAbove(idx)
  IN  IF above = {} THEN S_Unknown
      ELSE LET m == CHOOSE x \in above : \A y \in above : y <= x
           IN  TitleCased(detectSectionMarker(data[m + 1]).name)

\* C12: every emitted row carries the title-cased text of the nearest
\* section-marker row above it, or "Unknown" when there is none; section
\* marker rows and all-empty rows emit nothing, and an all-empty row leaves
\* the current section as it was.
C12_SectionOfNearestMarker ==
  MatrixDone =>
    \A i \in 1..Len(sheet.norm.rows) :
      LET r == sheet.norm.rows[i]
          row == data[r.srcRow + 1]
      IN  /\ ~isEmptyRow(row)
          /\ ~IsMarkerRow(row)
          /\ r.department = SectionAbove(r.srcRow)

\* ------------------------------------------------------------------------
\* The budget sheet scenario
\* ------------------------------------------------------------------------

\* C13: for the budget sheet with the analyzer reporting the H1 Total column
\* (position 2 from the data start), the sheet is a matrix with the three
\* period headers and exactly six rows, all of section "Sales"; the H1 Total
\* rows are aggregates and the Q1 Budget and Q2 Budget rows are not.
C13_MatrixScenario ==
  (/\ pc \in {"done", "loaded"}
   /\ data = MatrixScenario
   /\ analysis.aggregateColumns = {2}
   /\ analysis.aggregateRows = {}) =>
    /\ sheet.sheetType = "matrix"
    /\ classification.sheetType = "matrix"
    /\ classification.periodHeaders = << S_Q1Budget, S_Q2Budget, S_H1Total >>
    /\ Len(sheet.norm.rows) = 6
    /\ \A i \in 1..Len(sheet.norm.rows) :
         LET r == sheet.norm.rows[i]
         IN  /\ r.department = S_Sales
             /\ r.period \in { S_Q1Budget, S_Q2Budget, S_H1Total }
             /\ r.is_aggregate <=> (r.period = S_H1Total)

\* ------------------------------------------------------------------------
\* The simple table scenario
\* ------------------------------------------------------------------------

N_name == <<"n","a","m","e">>

\* name and type of the columns of the processed sheet, in order
ColumnTypes == [ i \in 1..Len(sheet.columns) |-> << sheet.columns[i].name, sheet.columns[i].type >> ]

TableScenarioShape ==
  /\ detection.headerRow = 1
  /\ sheet.headerRow = 1
  /\ classification.sheetType = "table"
  /\ sheet.sheetType = "table"
  /\ sheet.rowCount = 2
  /\ Len(sheet.data) = 2

\* C14 as stated: the title-plus-table sheet with the cells "1","Widget","100"
\* and "2","Gadget","200" has its header at row 1, is a table of two data
\* rows, and its columns are id:TEXT, name:TEXT, amount:INTEGER.
C14_TableScenario ==
  (pc \in {"done", "loaded"} /\ data = TableScenario) =>
    /\ TableScenarioShape
    /\ ColumnTypes = << << L_id, "VARCHAR" >>, << N_name, "VARCHAR" >>, << C_amount, "INTEGER" >> >>

\* C14 amended: for that sheet the header is at row 1, the sheet is a table
\* of two data rows and the columns are id:TEXT, name:TEXT, amount:TEXT, the
\* amounts being text; with the numbers 100 and 200 in their place the amount
\* column is INTEGER.
C14_TableScenarioTextAmount ==
  /\ (pc \in {"done", "loaded"} /\ data = TableScenario) =>
        /\ TableScenarioShape
        /\ ColumnTypes = << << L_id, "VARCHAR" >>, << N_name, "VARCHAR" >>, << C_amount, "VARCHAR" >> >>
  /\ (pc \in {"done", "loaded"} /\ data = TableScenarioNumbers) =>
        /\ TableScenarioShape
        /\ ColumnTypes = << << L_id, "VARCHAR" >>, << N_name, "VARCHAR" >>, << C_amount, "INTEGER" >> >>

\* the all-text sheet processed and loaded
C14_Witness ==
  /\ pc = "loaded"
  /\ data = TableScenario
  /\ sheet.sheetType = "table"
  /\ Len(table) = 2

\* ------------------------------------------------------------------------
\* Properties of header detection
\* ------------------------------------------------------------------------

Detected == pc \in {"classify", "classified"}

\* C15: for every grid, the detected header row index is >= 0 and the
\* confidence lies within 0..100.
C15_DetectionWithinRange ==
  Detected =>
    /\ detection.headerRow >= 0
    /\ detection.confidence >= 0
    /\ detection.confidence <= 100

\* scores of the rows 0 .. n-1 of the grid
ScoresOfFirst(n) == [ i \in 0..(n - 1) |-> scoreRow(data, i).score ]

\* C16: header detection looks at the first min(25, rows) rows only and
\* returns the row of the highest score among them, the lowest index among
\* rows of equal score.
C16_BestOfFirstRows ==
  (Detected /\ Len(data) > 0) =>
    LET n == Min(25, Len(data))
        score == ScoresOfFirst(n)
        h == detection.headerRow
    IN  /\ h \in 0..(n - 1)
        /\ \A i \in 0..(n - 1) :
             /\ score[i] <= score[h]
             /\ score[i] = score[h] => h <= i

\* a sheet of more than 25 rows whose best row lies past the scanned rows,
\* and whose scanned rows hold several rows of the highest score
C16_Witness ==
  /\ Detected
  /\ Len(data) > 25
  /\ detection.headerRow < 25
  /\ \E i \in 25..(Len(data) - 1) :
       scoreRow(data, i).score > scoreRow(data, detection.headerRow).score
  /\ \E i \in (detection.headerRow + 1)..24 :
       scoreRow(data, i).score = scoreRow(data, detection.headerRow).score

\* ------------------------------------------------------------------------
\* Properties of type inference
\* ------------------------------------------------------------------------

HasSuffix(s, t) == Len(s) >= Len(t) /\ SubSeq(s, Len(s) - Len(t) + 1, Len(s)) = t

IdSuffixes == { L__id, L__code, L__key, L__ref, L__no, L__number }

\* the cells beneath the detected header at one header position, top to
\* bottom; a row too short to have the cell yields Undef
CellsBeneath(pos) ==
  [ r \in 1..(Len(data) - detection.headerRow - 1) |->
      At(data[detection.headerRow + 1 + r], pos) ]

\* C17: a column whose sanitized name ends in _id, _code, _key, _ref, _no or
\* _number is TEXT whatever its cells hold, a column of numbers included.
C17_IdentifierColumnsAreText ==
  Detected =>
    \A i \in 1..Len(detection.columns) :
      LET c == detection.columns[i]
      IN  (\E t \in IdSuffixes : HasSuffix(c.name, t)) => c.type = "VARCHAR"

\* each of the six endings on a column that holds numbers only
C17_Witness ==
  /\ Detected
  /\ \A t \in IdSuffixes :
       \E i \in 1..Len(detection.columns) :
         LET c == detection.columns[i]
             cells == CellsBeneath(c.pos)
         IN  /\ HasSuffix(c.name, t)
             /\ Len(cells) >= 2
             /\ \A r \in 1..Len(cells) : IsNum(cells[r])
             /\ c.type = "VARCHAR"

\* the sampled values of a column: its first 20 non-empty cells
SamplesBeneath(pos) ==
  LET present == SelectSeq(CellsBeneath(pos), LAMBDA v : ~IsBlank(v))
  IN  SubSeq(present, 1, Min(20, Len(present)))

IsDateText(v) == v.k = "str" /\ isDateString(v.s)

\* how many of the samples satisfy the test, as tenths of the sample count
\* compared with seven tenths
ReachesThreshold(count, total) == total > 0 /\ 10 * count >= 7 * total

\* C18: a non-identifier column whose samples hold no plain text has the
\* first of the types BOOLEAN, DATE, INTEGER, REAL whose share of the sampled
\* non-empty values is at least 0.7, INTEGER being eligible only when every
\* numeric sample is integral; when none qualifies the type is TEXT.
C18_FirstTypeReachingThreshold ==
  Detected =>
    \A i \in 1..Len(detection.columns) :
      LET c == detection.columns[i]
          samples == SamplesBeneath(c.pos)
          total == Len(samples)
          idx == 1..total
          booleans == Cardinality({ j \in idx : samples[j].k = "bool" })
          dates == Cardinality({ j \in idx : IsDateText(samples[j]) })
          numbers == Cardinality({ j \in idx : IsNum(samples[j]) })
          integers == Cardinality({ j \in idx : IsNum(samples[j]) /\ samples[j].h = 0 })
          noPlainText == \A j \in idx : IsStr(samples[j]) => IsDateText(samples[j])
      IN  (~isIdLikeColumnName(c.name) /\ noPlainText) =>
            c.type = IF ReachesThreshold(booleans, total) THEN "BOOLEAN"
                     ELSE IF ReachesThreshold(dates, total) THEN "DATE"
                     ELSE IF ReachesThreshold(integers, total) /\ integers = numbers
                     THEN "INTEGER"
                     ELSE IF ReachesThreshold(numbers, total) THEN "DOUBLE"
                     ELSE "VARCHAR"

\* a column of three integers and one fraction: the integers reach the
\* threshold, yet the column is REAL
C18_Witness ==
  /\ Detected
  /\ \E i \in 1..Len(detection.columns) :
       LET c == detection.columns[i]
           samples == SamplesBeneath(c.pos)
       IN  /\ c.name = C_amount
           /\ Len(samples) = 4
           /\ Cardinality({ j \in 1..4 : IsNum(samples[j]) /\ samples[j].h = 0 }) = 3
           /\ Cardinality({ j \in 1..4 : IsNum(samples[j]) /\ samples[j].h = 1 }) = 1
           /\ c.type = "DOUBLE"

\* C19: a column with no value in any row beneath the header, however many
\* rows are sampled, is TEXT and nullable.
C19_EmptyColumnTextNullable ==
  Detected =>
    \A i \in 1..Len(detection.columns) :
      LET c == detection.columns[i]
          cells == CellsBeneath(c.pos)
      IN  (\A r \in 1..Len(cells) : IsBlank(cells[r])) =>
            /\ c.type = "VARCHAR"
            /\ c.nullable

\* ------------------------------------------------------------------------
\* The empty grid
\* ------------------------------------------------------------------------

\* C20: for the grid without rows, header detection returns header row 0,
\* confidence 0 and no columns, and classification returns UNKNOWN with
\* confidence 0.
C20_EmptyGrid ==
  (Len(data) = 0) =>
    /\ Detected =>
          /\ detection.headerRow = 0
          /\ detection.confidence = 0
          /\ detection.columns = <<>>
    /\ pc = "classified" =>
          /\ classification.sheetType = "unknown"
          /\ classification.confidence = 0

\* both calls made on the empty grid and returned
C20_Witness ==
  /\ Len(data) = 0
  /\ pc = "classified"
  /\ detection # NoDetection
  /\ classification.sheetType = "unknown"

\* ------------------------------------------------------------------------
\* Properties of the upload route
\* ------------------------------------------------------------------------

\* the sheets of the workbook that have columns and rows, in workbook order
NonEmptySheets == SelectSeq([ i \in 1..Len(wb) |-> i ], WithColumnsAndRows)

\* C21: relationship inference and schema assembly start only after every
\* sheet of the workbook has finished processing: the tables the schema and
\* its relationships are built from are those of the whole workbook, never of
\* a part of it.
C21_SchemaAfterAllSheets ==
  response.status = 200 =>
    /\ wbpc \in {"processed", "loaded"}
    /\ Len(processedSheets) = Len(wb)
    /\ response.sheets = [ i \in 1..Len(wb) |-> i ]
    /\ response.tables = NonEmptySheets

\* a schema built for a workbook of several sheets, one of them empty
C21_Witness ==
  /\ response.status = 200
  /\ Len(wb) >= 2
  /\ Len(response.tables) >= 1
  /\ Len(response.tables) < Len(wb)

\* C22: a workbook that cannot be read, or that has no sheets, fails the whole
\* upload: the only response it can get is the error response, which carries
\* no sheets and no tables.
C22_MalformedInputFails ==
  ( response # NoResponse /\ ( ~readable \/ Len(wb) = 0 ) ) =>
    /\ ~response.success
    /\ response.status = 500
    /\ response.sheets = <<>>
    /\ response.tables = <<>>

\* the part of C22 about bytes that cannot be read
C22_UnreadableFails ==
  ( response # NoResponse /\ ~readable ) =>
    ( ~response.success /\ response.status = 500 )

\* ------------------------------------------------------------------------
\* Properties of the classifier's result
\* ------------------------------------------------------------------------

\* the columns left of the period columns (the first two) that hold a value in
\* some row beneath the period header row
PopulatedLabelColumns ==
  { c \in {0, 1} :
      \E r \in (classification.periodHeaderRow + 2)..Len(data) :
        ~IsBlank(At(data[r], c)) }

\* C23: for a sheet classified MATRIX, labelColumnCount is 1 when the sheet
\* has only one populated label column and 2 otherwise.
C23_LabelColumnCount ==
  ( pc # "start" /\ Len(data) > 0 /\ classification.sheetType = "matrix" ) =>
    classification.labelColumnCount =
      IF Cardinality(PopulatedLabelColumns) = 1 THEN 1 ELSE 2

\* w occurs in s, letter case respected
ContainsSeq(s, w) ==
  \E i \in 1..(Len(s) - Len(w) + 1) : SubSeq(s, i, i + Len(w) - 1) = w

\* the first cells beneath the period header row that the section-marker
\* patterns match
MarkerCellsBeneath(periodRow) ==
  { At(data[r], 0).s : r \in { q \in (periodRow + 2)..Len(data) :
      /\ IsStr(At(data[q], 0))
      /\ ~IsBlank(At(data[q], 0))
      /\ SECTION_MARKER_PATTERNS(At(data[q], 0).s) } }

\* C24: a row whose first cell is "TOTAL" or contains "TOTAL" is not counted
\* as a section marker: a sheet whose only candidates are such rows does not
\* get the 30 points of the section-marker evidence.
C24_TotalRowsAreNoMarkers ==
  ( pc = "classified" /\ FirstPeriodRow(data) >= 0
      /\ \A m \in MarkerCellsBeneath(FirstPeriodRow(data)) : ContainsSeq(m, S_TOTAL) ) =>
    scanForMatrixPattern(data).confidence < PeriodScore + SectionScore

\* C30: the sheetType reported on a ProcessedSheet is the sheetType the
\* classifier returned for the sheet; a sheet classified UNKNOWN is reported
\* as UNKNOWN.
C30_ReportedTypeIsClassifiedType ==
  ( pc \in {"done", "loaded"} /\ Len(data) > 0 ) =>
    sheet.sheetType = classification.sheetType

\* ------------------------------------------------------------------------
\* Properties of question answering
\* ------------------------------------------------------------------------

\* the text is acceptable: with its comments stripped it starts with SELECT
\* or WITH and holds none of the blocked keywords
Acceptable(normalizedSql) ==
  /\ isReadOnlyQuery(normalizedSql)
  /\ findDangerousKeyword(normalizedSql) = <<>>

WordFrom(s, i) ==
  LET starts == { j \in i..Len(s) : s[j] \notin WhiteChars }
  IN  IF starts = {} THEN <<>>
      ELSE LET lo == CHOOSE j \in starts : \A k \in starts : j <= k
               word == { k \in lo..Len(s) : \A m \in lo..k : IsWordChar(s[m]) }
           IN  SubSeq(s, lo, lo + Cardinality(word) - 1)

\* the names that follow FROM or JOIN in the text, comments left out
TablesReferenced(sql) ==
  LET text == StripBlockComments(StripLineComments(sql))
      after(w) == { i + Len(w) : i \in { j \in 1..Len(text) :
                      /\ OccursAtCI(text, w, j)
                      /\ WordBoundary(text, j)
                      /\ WordBoundary(text, j + Len(w)) } }
  IN  { ToLowerCase(WordFrom(text, i)) :
          i \in after(<<"f","r","o","m">>) \cup after(<<"j","o","i","n">>) } \ { <<>> }

\* the tables of the schema the questions are asked about
SchemaTableNames == { <<"t">> }

\* C26: SQL validation accepts a query only if every table name it
\* references exists in the schema.
C26_AcceptedTablesExist ==
  step.valid => TablesReferenced(step.sql) \subseteq SchemaTableNames

\* a question is attempted at most MAX_RETRIES times
C27_AtMostThreeAttempts == attempt <= MAX_RETRIES

\* executeQuery stops at the first successful execution
C27_StopsAtFirstSuccess ==
  successes >= 1 => ( successes = 1 /\ queryResult.returned /\ queryResult.success )

\* after the third failed attempt the failure result carries the last SQL
C27_FailureCarriesLastSql ==
  ( queryResult.returned /\ ~queryResult.success /\ attempt = MAX_RETRIES ) =>
    queryResult.sql = lastSql

\* C27: a question is attempted at most 3 times: executeQuery stops at the
\* first successful execution, and after the third failed attempt it returns
\* a failure result that carries the last attempted SQL; it does not go on
\* after it has returned.
C27_ExecuteQueryContract ==
  /\ C27_AtMostThreeAttempts
  /\ C27_StopsAtFirstSuccess
  /\ C27_FailureCarriesLastSql

\* the server keeps no session but the one of the newest upload
C28_ServerSessionReplaced ==
  \A id \in LiveSessions(sessions) : id = nextUpload - 1

\* the browser database holds no table of a file older than the loaded one
C28_BrowserTablesReplaced ==
  schemaRef # 0 => \A f \in browserTables : f >= schemaRef

\* the conversation of the hook holds no entry about an older file
C28_BrowserHistoryGone ==
  schemaRef # 0 =>
    \A i \in 1..Len(conversationRef) : conversationRef[i] >= schemaRef

\* C28: uploading a new file replaces the previous one: once the new file is
\* loaded, no table of the previously uploaded file remains queryable and
\* the conversation history of the previous session is gone.
C28_UploadReplacesPrevious ==
  /\ C28_ServerSessionReplaced
  /\ C28_BrowserTablesReplaced
  /\ C28_BrowserHistoryGone

C29_IdleSessionsEventuallyRemoved ==
  \A id \in 1..MaxUploads :
    ( sessions[id].live /\ sessions[id].idle )
      ~> ~( sessions[id].live /\ sessions[id].idle )

\* at most one cleanup timer is pending, and the flag tells whether
C29_OneTimerAtMost ==
  /\ timers \in 0..1
  /\ cleanupScheduled <=> ( timers = 1 )

====
